---- MODULE Spec2Model ----
(***************************************************************************)
(* WeatherShield: parametric crop insurance.                               *)
(*   WeatherShieldInsurance  (policies, claims, treasury)                  *)
(*   FlareDataConnector      (oracle request / fulfilment broker)          *)
(*   WeatherOracle           (per-location history and running averages)   *)
(*                                                                         *)
(* Units.  Amounts are counted in units of 10^13 wei (1 ether = 100000),   *)
(* time in days (1 day = 86400 s); every program constant below is the     *)
(* source constant expressed in these units.  Weather values are the       *)
(* scaled integers the contracts store.                                    *)
(***************************************************************************)
EXTENDS Integers, Sequences, FiniteSets, TLC

(* ------------------------------ bounds --------------------------------- *)
MaxPolicies == 1
MaxClaims == 2
MaxTime == 8
MaxFunds == 1
MaxRequests == 2
MaxHistory == 2
MaxTriggerClaims == 1
MaxAdminClaims == 1
MaxIdPolicies == 2
MaxIdClaims == 2
MaxIdRequests == 3
MaxAverageReadings == 3
MaxRiskHistory == 102
MaxCallDepth == 2
MaxFactoryPolicies == 2
MaxReentryPolicies == 2
MaxReentryClaims == 2
(* weather values are 256-bit words in the contracts; the model keeps the  *)
(* two's-complement behaviour of the casts at this word size               *)
WordBits == 8

(* ------------------------- program constants --------------------------- *)
Ether == 100000
DefaultBasePremiumRate == 500
DefaultMinCoverage == 1000
DefaultMaxCoverage == 10000000
DefaultMinDuration == 7
DefaultMaxDuration == 365
DaysPerYear == 365
MinimumPremium == 100
MaxBasePremiumRate == 5000
BasisPoints == 10000
CancellationFeeDivisor == 10
RiskSampleWindow == 100
DefaultRiskScore == 50

(* PolicyStatus and TriggerType enums, by their Solidity ordinals *)
Active == 0
Expired == 1
ClaimPaid == 2
Cancelled == 3

RainfallBelow == 0
RainfallAbove == 1
TemperatureBelow == 2
TemperatureAbove == 3
WindSpeedAbove == 4
TriggerTypes == RainfallBelow..WindSpeedAbove

(* ------------------------------ accounts ------------------------------- *)
ZeroAddress == "zero"
Owner == "owner"
Farmers == {"farmer1", "farmer2"}
Provider == "provider"
OracleAddr == "oracle"
TreasuryAddr == "treasury"
FdcAddr == "fdc"
OtherFdcAddr == "fdc2"
(* a contract account whose receive function calls back into the insurance
   contract when it is sent value *)
Attacker == "attacker"
(* the PolicyFactory contract as a sender *)
FactoryAddr == "factory"
Accounts == {Owner, Provider, OracleAddr, TreasuryAddr, Attacker, FactoryAddr} \cup Farmers

(* bytes32(0) for location hashes and request ids *)
ZeroHash == 0
ZeroId == <<0, 0, 0, 0>>
LocationHashes == {1, 2}

VARIABLES
    policies, holderPolicies, policyCounter,
    claims, policyClaims, claimCounter,
    basePremiumRate, minCoverageAmount, maxCoverageAmount,
    minPolicyDuration, maxPolicyDuration,
    treasury, flareDataConnector,
    treasuryBalance, totalPremiumsCollected, totalClaimsPaid,
    paused, balance,
    weatherDataStorage, latestRequestByLocation, requestCounter,
    authorizedProviders, fdcOwner,
    locationHistory, locationAverages,
    now, sent, callStack

policyVars == <<policies, holderPolicies, policyCounter>>
claimVars == <<claims, policyClaims, claimCounter>>
configVars == <<basePremiumRate, minCoverageAmount, maxCoverageAmount,
                minPolicyDuration, maxPolicyDuration, treasury,
                flareDataConnector, paused>>
moneyVars == <<treasuryBalance, totalPremiumsCollected, totalClaimsPaid, balance>>
insVars == <<policyVars, claimVars, configVars, moneyVars>>
requestVars == <<weatherDataStorage, latestRequestByLocation, requestCounter>>
authVars == <<authorizedProviders, fdcOwner>>
fdcVars == <<requestVars, authVars>>
oracleVars == <<locationHistory, locationAverages>>
vars == <<insVars, fdcVars, oracleVars, now, sent, callStack>>

(* ------------------------- storage defaults ---------------------------- *)
(* A Solidity mapping returns the zero value for a key never written. *)
EmptyPolicy ==
    [policyId |-> 0, policyholder |-> ZeroAddress, locationHash |-> ZeroHash,
     triggerType |-> 0, triggerThreshold |-> 0, premium |-> 0,
     coverageAmount |-> 0, startTime |-> 0, endTime |-> 0, status |-> Active,
     cropType |-> "", farmSize |-> 0]

EmptyClaim ==
    [claimId |-> 0, policyId |-> 0, timestamp |-> 0, actualValue |-> 0,
     payoutAmount |-> 0, processed |-> FALSE, weatherDataRequestId |-> ZeroId]

EmptyWeatherData ==
    [timestamp |-> 0, temperature |-> 0, rainfall |-> 0, humidity |-> 0,
     windSpeed |-> 0, locationHash |-> ZeroHash, isVerified |-> FALSE]

EmptyAverages ==
    [avgTemperature |-> 0, avgRainfall |-> 0, avgHumidity |-> 0,
     avgWindSpeed |-> 0, dataPoints |-> 0, lastUpdated |-> 0]

getPolicy(policyId) ==
    IF policyId \in DOMAIN policies THEN policies[policyId] ELSE EmptyPolicy

getClaim(claimId) ==
    IF claimId \in DOMAIN claims THEN claims[claimId] ELSE EmptyClaim

getWeatherData(requestId) ==
    IF requestId \in DOMAIN weatherDataStorage
    THEN weatherDataStorage[requestId] ELSE EmptyWeatherData

(* The value transfer made by the most recent step: recipient and amount  *)
(* of the call{value: amount} it executed, NoTransfer if it made none.     *)
Transfer(to, amount) == [to |-> to, amount |-> amount]

NoTransfer == Transfer(ZeroAddress, 0)

(* ReentrancyGuard: the functions declared nonReentrant; _status is ENTERED
   while one of them is on the call stack.  callStack holds the functions
   that are waiting for a value transfer to a calling-back recipient to
   return. *)
NonReentrantFunctions == {"createPolicy", "cancelPolicy", "initiateClaim", "processClaim"}
reentrancyEntered == \E i \in 1..Len(callStack) : callStack[i] \in NonReentrantFunctions

(* recipient.call{value: ...}(""): control passes to the recipient, whose
   code runs before the calling function returns *)
externalCall(function, recipient, made) ==
    IF made /\ recipient = Attacker THEN Append(callStack, function) ELSE callStack

(* uint256 and int256 at the model's word size *)
UintMax == 2^WordBits - 1
IntMax == 2^(WordBits - 1) - 1
IntMin == -(2^(WordBits - 1))

(* int256(x) for a uint256 x: an explicit conversion, unchecked, so a value *)
(* above IntMax wraps to a negative number                                  *)
toInt256(x) == IF x > IntMax THEN x - 2^WordBits ELSE x

(* Solidity division truncates toward zero; \div floors *)
TruncDiv(a, b) == IF a >= 0 THEN a \div b ELSE -((-a) \div b)


(* ======================= WeatherShieldInsurance ======================== *)
(* ---------------------------- pure functions --------------------------- *)
evaluateTrigger(policy, weatherData) ==
    IF policy.triggerType = RainfallBelow
        THEN toInt256(weatherData.rainfall) < policy.triggerThreshold
    ELSE IF policy.triggerType = RainfallAbove
        THEN toInt256(weatherData.rainfall) > policy.triggerThreshold
    ELSE IF policy.triggerType = TemperatureBelow
        THEN weatherData.temperature < policy.triggerThreshold
    ELSE IF policy.triggerType = TemperatureAbove
        THEN weatherData.temperature > policy.triggerThreshold
    ELSE IF policy.triggerType = WindSpeedAbove
        THEN toInt256(weatherData.windSpeed) > policy.triggerThreshold
    ELSE FALSE

getRelevantWeatherValue(triggerType, weatherData) ==
    IF triggerType = RainfallBelow \/ triggerType = RainfallAbove
        THEN toInt256(weatherData.rainfall)
    ELSE IF triggerType = TemperatureBelow \/ triggerType = TemperatureAbove
        THEN weatherData.temperature
    ELSE IF triggerType = WindSpeedAbove
        THEN toInt256(weatherData.windSpeed)
    ELSE 0

(* the multipliers of drought and flood exchanged *)
getRiskMultiplier_floodBelowDrought(triggerType) ==
    IF triggerType = RainfallBelow THEN 150
    ELSE IF triggerType = RainfallAbove THEN 120
    ELSE IF triggerType = TemperatureBelow THEN 110
    ELSE IF triggerType = TemperatureAbove THEN 130
    ELSE IF triggerType = WindSpeedAbove THEN 140
    ELSE 100

getRiskMultiplier(triggerType) ==
    IF triggerType = RainfallBelow THEN 120
    ELSE IF triggerType = RainfallAbove THEN 150
    ELSE IF triggerType = TemperatureBelow THEN 110
    ELSE IF triggerType = TemperatureAbove THEN 130
    ELSE IF triggerType = WindSpeedAbove THEN 140
    ELSE 100

(* (a * b) / c of unsigned integer division, evaluated as
   (a / c) * b + ((a % c) * b) / c, which is the same number and keeps every
   intermediate value small for coverage amounts up to the 100 ether maximum *)
MulDiv(a, b, c) == (a \div c) * b + ((a % c) * b) \div c

(* the premium with the division by 100 taken before the multiplication by
   the duration multiplier *)
premiumAtRate_divideFirst(rate, coverageAmount, duration, triggerType) ==
    LET base == MulDiv(coverageAmount, rate, BasisPoints)
        durationMultiplier == (duration * 100) \div DaysPerYear
        timed == (base \div 100) * durationMultiplier
        risked == (timed * getRiskMultiplier(triggerType)) \div 100
    IN  IF risked < MinimumPremium THEN MinimumPremium ELSE risked

(* premium under a given base rate; each division truncates before the next step *)
premiumAtRate(rate, coverageAmount, duration, triggerType) ==
    LET base == MulDiv(coverageAmount, rate, BasisPoints)
        durationMultiplier == (duration * 100) \div DaysPerYear
        timed == (base * durationMultiplier) \div 100
        risked == (timed * getRiskMultiplier(triggerType)) \div 100
    IN  IF risked < MinimumPremium THEN MinimumPremium ELSE risked

calculatePremium(coverageAmount, duration, triggerType) ==
    premiumAtRate(basePremiumRate, coverageAmount, duration, triggerType)

(* cancelPolicy taking the fee on the whole premium *)
refundAmount_feeOnPremium(policy, t) ==
    LET totalDuration == policy.endTime - policy.startTime
        elapsedDuration == t - policy.startTime
        prorated == (policy.premium * (totalDuration - elapsedDuration)) \div totalDuration
        cancellationFee == policy.premium \div CancellationFeeDivisor
    IN  prorated - cancellationFee

(* refund computed by cancelPolicy at block time t *)
refundAmount(policy, t) ==
    LET totalDuration == policy.endTime - policy.startTime
        elapsedDuration == t - policy.startTime
        prorated == (policy.premium * (totalDuration - elapsedDuration)) \div totalDuration
        cancellationFee == prorated \div CancellationFeeDivisor
    IN  prorated - cancellationFee

(* ========================= FlareDataConnector ========================== *)
(* keccak256(abi.encodePacked(locationHash, timestamp, requestCounter,     *)
(* block.timestamp)): a collision-free hash is an injective tuple          *)
(* a request id that leaves the request counter out of the hash *)
requestIdOf_noCounter(locationHash, timestamp, counter, blockTime) ==
    <<locationHash, timestamp, 0, blockTime>>

requestIdOf(locationHash, timestamp, counter, blockTime) ==
    <<locationHash, timestamp, counter, blockTime>>

(* isDataAvailable reporting every request as verified *)
isDataAvailable_ignoresVerified(requestId) ==
    [available |-> getWeatherData(requestId).locationHash # ZeroHash,
     verified |-> TRUE]

isDataAvailable(requestId) ==
    [available |-> getWeatherData(requestId).locationHash # ZeroHash,
     verified |-> getWeatherData(requestId).isVerified]

(* the modifier accepting every sender *)
onlyAuthorizedProvider_open(caller) == TRUE

onlyAuthorizedProvider(caller) ==
    authorizedProviders[caller] \/ caller = fdcOwner

(* storage effect of requestWeatherData(locationHash, timestamp) *)
storeRequest(locationHash, timestamp) ==
    LET requestId == requestIdOf(locationHash, timestamp, requestCounter + 1, now)
        placeholder == [timestamp |-> timestamp, temperature |-> 0, rainfall |-> 0,
                        humidity |-> 0, windSpeed |-> 0,
                        locationHash |-> locationHash, isVerified |-> FALSE]
    IN  /\ requestCounter' = requestCounter + 1
        /\ weatherDataStorage' =
              [r \in DOMAIN weatherDataStorage \cup {requestId} |->
                  IF r = requestId THEN placeholder ELSE weatherDataStorage[r]]
        /\ UNCHANGED latestRequestByLocation

requestWeatherData(caller, locationHash, timestamp) ==
    /\ storeRequest(locationHash, timestamp)
    /\ sent' = NoTransfer
    /\ UNCHANGED callStack
    /\ UNCHANGED <<insVars, authVars, oracleVars, now>>

(* fulfillWeatherData without the require on isVerified *)
fulfillError_noFulfilledCheck(sender, requestId) ==
    IF ~onlyAuthorizedProvider(sender) THEN "FDC: not authorized provider"
    ELSE IF getWeatherData(requestId).locationHash = ZeroHash
        THEN "FDC: request does not exist"
    ELSE "ok"

(* the outcome of fulfillWeatherData for msg.sender = sender: "ok" or the  *)
(* revert reason, in the order the modifier and the requires are evaluated *)
fulfillError(sender, requestId) ==
    IF ~onlyAuthorizedProvider(sender) THEN "FDC: not authorized provider"
    ELSE IF getWeatherData(requestId).locationHash = ZeroHash
        THEN "FDC: request does not exist"
    ELSE IF getWeatherData(requestId).isVerified THEN "FDC: already fulfilled"
    ELSE "ok"

(* fulfillWeatherData that leaves latestRequestByLocation alone *)
fulfillStore_noLatest(requestId, temperature, rainfall, humidity, windSpeed) ==
    /\ weatherDataStorage' =
          [weatherDataStorage EXCEPT ![requestId] =
              [@ EXCEPT !.temperature = temperature, !.rainfall = rainfall,
                        !.humidity = humidity, !.windSpeed = windSpeed,
                        !.isVerified = TRUE]]
    /\ UNCHANGED <<latestRequestByLocation, requestCounter>>

(* storage effect of a fulfillWeatherData that does not revert *)
fulfillStore(requestId, temperature, rainfall, humidity, windSpeed) ==
    /\ weatherDataStorage' =
          [weatherDataStorage EXCEPT ![requestId] =
              [@ EXCEPT !.temperature = temperature, !.rainfall = rainfall,
                        !.humidity = humidity, !.windSpeed = windSpeed,
                        !.isVerified = TRUE]]
    /\ latestRequestByLocation' =
          [l \in DOMAIN latestRequestByLocation \cup
                 {weatherDataStorage[requestId].locationHash} |->
              IF l = weatherDataStorage[requestId].locationHash THEN requestId
              ELSE latestRequestByLocation[l]]
    /\ UNCHANGED requestCounter

fulfillWeatherData(caller, requestId, temperature, rainfall, humidity, windSpeed) ==
    /\ fulfillError(caller, requestId) = "ok"
    /\ fulfillStore(requestId, temperature, rainfall, humidity, windSpeed)
    /\ sent' = NoTransfer
    /\ UNCHANGED callStack
    /\ UNCHANGED <<insVars, authVars, oracleVars, now>>

authorizeError(caller, provider) ==
    IF caller # fdcOwner THEN "FDC: caller is not owner"
    ELSE IF provider = ZeroAddress THEN "FDC: invalid provider address"
    ELSE "ok"

authorizeProvider(caller, provider) ==
    /\ authorizeError(caller, provider) = "ok"
    /\ authorizedProviders' = [authorizedProviders EXCEPT ![provider] = TRUE]
    /\ sent' = NoTransfer
    /\ UNCHANGED callStack
    /\ UNCHANGED <<insVars, requestVars, fdcOwner, oracleVars, now>>

revokeError(caller, provider) ==
    IF caller # fdcOwner THEN "FDC: caller is not owner" ELSE "ok"

revokeProvider(caller, provider) ==
    /\ revokeError(caller, provider) = "ok"
    /\ authorizedProviders' = [authorizedProviders EXCEPT ![provider] = FALSE]
    /\ sent' = NoTransfer
    /\ UNCHANGED callStack
    /\ UNCHANGED <<insVars, requestVars, fdcOwner, oracleVars, now>>

fdcTransferOwnershipError(caller, newOwner) ==
    IF caller # fdcOwner THEN "FDC: caller is not owner"
    ELSE IF newOwner = ZeroAddress THEN "FDC: invalid new owner"
    ELSE "ok"

fdcTransferOwnership(caller, newOwner) ==
    /\ fdcTransferOwnershipError(caller, newOwner) = "ok"
    /\ fdcOwner' = newOwner
    /\ sent' = NoTransfer
    /\ UNCHANGED callStack
    /\ UNCHANGED <<insVars, requestVars, authorizedProviders, oracleVars, now>>

(* ======================= WeatherShieldInsurance ======================== *)
(* -------------------------- createPolicy ------------------------------- *)
(* accept: whether the recipient of a value transfer accepts it; the call
   moves the value only then, and the require on its result is the last
   check of each xxxError operator *)
(* createPolicy whose limits are exclusive and which takes a farm size of zero *)
createPolicyError_exclusiveLimits(caller, locationHash, triggerType, triggerThreshold, coverageAmount, duration, cropType, farmSize, value, accept) ==
    IF paused THEN "EnforcedPause"
    ELSE IF locationHash = ZeroHash THEN "WS: invalid location"
    ELSE IF coverageAmount < minCoverageAmount THEN "WS: coverage too low"
    ELSE IF coverageAmount >= maxCoverageAmount THEN "WS: coverage too high"
    ELSE IF duration <= minPolicyDuration THEN "WS: duration too short"
    ELSE IF duration > maxPolicyDuration THEN "WS: duration too long"
    ELSE IF cropType = "" THEN "WS: crop type required"
    ELSE IF value < calculatePremium(coverageAmount, duration, triggerType)
        THEN "WS: insufficient premium"
    ELSE IF value > calculatePremium(coverageAmount, duration, triggerType) /\ ~accept
        THEN "WS: refund failed"
    ELSE "ok"

createPolicyError(caller, locationHash, triggerType, triggerThreshold, coverageAmount, duration, cropType, farmSize, value, accept) ==
    IF reentrancyEntered THEN "ReentrancyGuardReentrantCall"
    ELSE IF paused THEN "EnforcedPause"
    ELSE IF locationHash = ZeroHash THEN "WS: invalid location"
    ELSE IF coverageAmount < minCoverageAmount THEN "WS: coverage too low"
    ELSE IF coverageAmount > maxCoverageAmount THEN "WS: coverage too high"
    ELSE IF duration < minPolicyDuration THEN "WS: duration too short"
    ELSE IF duration > maxPolicyDuration THEN "WS: duration too long"
    ELSE IF cropType = "" THEN "WS: crop type required"
    ELSE IF farmSize <= 0 THEN "WS: invalid farm size"
    ELSE IF value < calculatePremium(coverageAmount, duration, triggerType)
        THEN "WS: insufficient premium"
    ELSE IF value > calculatePremium(coverageAmount, duration, triggerType) /\ ~accept
        THEN "WS: refund failed"
    ELSE "ok"

(* createPolicy that credits the whole value paid and returns nothing *)
createPolicy_creditsValue(caller, locationHash, triggerType, triggerThreshold, coverageAmount, duration, cropType, farmSize, value, accept) ==
    LET premium == calculatePremium(coverageAmount, duration, triggerType)
        policyId == policyCounter + 1
    IN  /\ createPolicyError(caller, locationHash, triggerType, triggerThreshold,
                             coverageAmount, duration, cropType, farmSize,
                             value, accept) = "ok"
        /\ policyCounter' = policyId
        /\ policies' =
              [p \in DOMAIN policies \cup {policyId} |->
                  IF p = policyId
                  THEN [policyId |-> policyId, policyholder |-> caller,
                        locationHash |-> locationHash, triggerType |-> triggerType,
                        triggerThreshold |-> triggerThreshold, premium |-> premium,
                        coverageAmount |-> coverageAmount, startTime |-> now,
                        endTime |-> now + duration, status |-> Active,
                        cropType |-> cropType, farmSize |-> farmSize]
                  ELSE policies[p]]
        /\ holderPolicies' =
              [holderPolicies EXCEPT ![caller] = Append(@, policyId)]
        /\ treasuryBalance' = treasuryBalance + value
        /\ totalPremiumsCollected' = totalPremiumsCollected + value
        /\ balance' = balance + value
        /\ sent' = NoTransfer
        /\ UNCHANGED callStack
        /\ UNCHANGED <<claimVars, configVars, totalClaimsPaid, fdcVars, oracleVars, now>>

createPolicy(caller, locationHash, triggerType, triggerThreshold, coverageAmount, duration, cropType, farmSize, value, accept) ==
    LET premium == calculatePremium(coverageAmount, duration, triggerType)
        policyId == policyCounter + 1
    IN  /\ createPolicyError(caller, locationHash, triggerType, triggerThreshold,
                             coverageAmount, duration, cropType, farmSize,
                             value, accept) = "ok"
        /\ policyCounter' = policyId
        /\ policies' =
              [p \in DOMAIN policies \cup {policyId} |->
                  IF p = policyId
                  THEN [policyId |-> policyId, policyholder |-> caller,
                        locationHash |-> locationHash, triggerType |-> triggerType,
                        triggerThreshold |-> triggerThreshold, premium |-> premium,
                        coverageAmount |-> coverageAmount, startTime |-> now,
                        endTime |-> now + duration, status |-> Active,
                        cropType |-> cropType, farmSize |-> farmSize]
                  ELSE policies[p]]
        /\ holderPolicies' =
              [holderPolicies EXCEPT ![caller] = Append(@, policyId)]
        /\ treasuryBalance' = treasuryBalance + premium
        /\ totalPremiumsCollected' = totalPremiumsCollected + premium
        /\ balance' = IF value > premium /\ ~accept THEN balance + value
                      ELSE balance + premium
        /\ sent' = IF value > premium /\ accept THEN Transfer(caller, value - premium)
                   ELSE NoTransfer
        /\ callStack' = externalCall("createPolicy", caller, value > premium /\ accept)
        /\ UNCHANGED <<claimVars, configVars, totalClaimsPaid, fdcVars, oracleVars, now>>

(* --------------------------- cancelPolicy ------------------------------ *)
(* cancelPolicy without the require on the policy status *)
cancelPolicyError_noStatusCheck(caller, policyId, accept) ==
    IF getPolicy(policyId).policyholder # caller THEN "WS: not policyholder"
    ELSE IF ~(now < getPolicy(policyId).endTime) THEN "WS: policy expired"
    ELSE IF treasuryBalance < refundAmount(getPolicy(policyId), now)
        THEN "Panic: arithmetic underflow"
    ELSE IF ~accept THEN "WS: refund failed"
    ELSE "ok"

(* cancelPolicy without the require on the result of the refund call *)
cancelPolicyError_ignoresFailure(caller, policyId, accept) ==
    IF getPolicy(policyId).policyholder # caller THEN "WS: not policyholder"
    ELSE IF getPolicy(policyId).status # Active THEN "WS: policy not active"
    ELSE IF ~(now < getPolicy(policyId).endTime) THEN "WS: policy expired"
    ELSE IF treasuryBalance < refundAmount(getPolicy(policyId), now)
        THEN "Panic: arithmetic underflow"
    ELSE "ok"

cancelPolicyError(caller, policyId, accept) ==
    IF reentrancyEntered THEN "ReentrancyGuardReentrantCall"
    ELSE IF getPolicy(policyId).policyholder # caller THEN "WS: not policyholder"
    ELSE IF getPolicy(policyId).status # Active THEN "WS: policy not active"
    ELSE IF ~(now < getPolicy(policyId).endTime) THEN "WS: policy expired"
    ELSE IF treasuryBalance < refundAmount(getPolicy(policyId), now)
        THEN "Panic: arithmetic underflow"
    ELSE IF ~accept THEN "WS: refund failed"
    ELSE "ok"

cancelPolicy(caller, policyId, accept) ==
    LET refund == refundAmount(getPolicy(policyId), now)
    IN  /\ cancelPolicyError(caller, policyId, accept) = "ok"
        /\ policies' = [policies EXCEPT ![policyId].status = Cancelled]
        /\ treasuryBalance' = treasuryBalance - refund
        /\ balance' = IF accept THEN balance - refund ELSE balance
        /\ sent' = IF accept THEN Transfer(caller, refund) ELSE NoTransfer
        /\ callStack' = externalCall("cancelPolicy", caller, accept)
        /\ UNCHANGED <<holderPolicies, policyCounter, claimVars, configVars,
                       totalPremiumsCollected, totalClaimsPaid,
                       fdcVars, oracleVars, now>>

(* --------------------------- initiateClaim ----------------------------- *)
(* initiateClaim that treats the end time itself as expired *)
initiateClaimError_exclusiveEnd(caller, policyId) ==
    IF paused THEN "EnforcedPause"
    ELSE IF getPolicy(policyId).policyholder # caller THEN "WS: not policyholder"
    ELSE IF getPolicy(policyId).status # Active THEN "WS: policy not active"
    ELSE IF ~(now >= getPolicy(policyId).startTime) THEN "WS: policy not started"
    ELSE IF ~(now < getPolicy(policyId).endTime) THEN "WS: policy expired"
    ELSE "ok"

initiateClaimError(caller, policyId) ==
    IF reentrancyEntered THEN "ReentrancyGuardReentrantCall"
    ELSE IF paused THEN "EnforcedPause"
    ELSE IF getPolicy(policyId).policyholder # caller THEN "WS: not policyholder"
    ELSE IF getPolicy(policyId).status # Active THEN "WS: policy not active"
    ELSE IF ~(now >= getPolicy(policyId).startTime) THEN "WS: policy not started"
    ELSE IF ~(now <= getPolicy(policyId).endTime) THEN "WS: policy expired"
    ELSE "ok"

initiateClaim(caller, policyId) ==
    LET weatherRequestId ==
            requestIdOf(getPolicy(policyId).locationHash, now, requestCounter + 1, now)
        claimId == claimCounter + 1
    IN  /\ initiateClaimError(caller, policyId) = "ok"
        /\ storeRequest(getPolicy(policyId).locationHash, now)
        /\ claimCounter' = claimId
        /\ claims' =
              [c \in DOMAIN claims \cup {claimId} |->
                  IF c = claimId
                  THEN [claimId |-> claimId, policyId |-> policyId, timestamp |-> now,
                        actualValue |-> 0, payoutAmount |-> 0, processed |-> FALSE,
                        weatherDataRequestId |-> weatherRequestId]
                  ELSE claims[c]]
        /\ policyClaims' =
              [p \in DOMAIN policyClaims \cup {policyId} |->
                  IF p = policyId
                  THEN Append(IF p \in DOMAIN policyClaims THEN policyClaims[p] ELSE <<>>,
                              claimId)
                  ELSE policyClaims[p]]
        /\ sent' = NoTransfer
        /\ UNCHANGED callStack
        /\ UNCHANGED <<policyVars, configVars, moneyVars, authVars, oracleVars, now>>

(* --------------------------- processClaim ------------------------------ *)
(* processClaim without the require on claim.processed *)
processClaimError_noProcessedCheck(claimId, accept) ==
    LET claim == getClaim(claimId)
        policy == getPolicy(claim.policyId)
        data == isDataAvailable(claim.weatherDataRequestId)
    IN  IF paused THEN "EnforcedPause"
        ELSE IF policy.status # Active THEN "WS: policy not active"
        ELSE IF ~(data.available /\ data.verified) THEN "WS: weather data not ready"
        ELSE IF evaluateTrigger(policy, getWeatherData(claim.weatherDataRequestId))
            THEN IF ~(treasuryBalance >= policy.coverageAmount)
                    THEN "WS: insufficient treasury"
                 ELSE IF ~accept THEN "WS: payout failed"
                 ELSE "ok"
        ELSE "ok"

(* processClaim without the whenNotPaused modifier *)
processClaimError_whenPaused(claimId, accept) ==
    LET claim == getClaim(claimId)
        policy == getPolicy(claim.policyId)
        data == isDataAvailable(claim.weatherDataRequestId)
    IN  IF claim.processed THEN "WS: claim already processed"
        ELSE IF policy.status # Active THEN "WS: policy not active"
        ELSE IF ~(data.available /\ data.verified) THEN "WS: weather data not ready"
        ELSE IF evaluateTrigger(policy, getWeatherData(claim.weatherDataRequestId))
            THEN IF ~(treasuryBalance >= policy.coverageAmount)
                    THEN "WS: insufficient treasury"
                 ELSE IF ~accept THEN "WS: payout failed"
                 ELSE "ok"
        ELSE "ok"

(* processClaim that refuses a claim once the policy's end time has passed *)
processClaimError_checksEndTime(claimId, accept) ==
    LET claim == getClaim(claimId)
        policy == getPolicy(claim.policyId)
        data == isDataAvailable(claim.weatherDataRequestId)
    IN  IF paused THEN "EnforcedPause"
        ELSE IF claim.processed THEN "WS: claim already processed"
        ELSE IF policy.status # Active THEN "WS: policy not active"
        ELSE IF ~(now <= policy.endTime) THEN "WS: policy expired"
        ELSE IF ~(data.available /\ data.verified) THEN "WS: weather data not ready"
        ELSE IF evaluateTrigger(policy, getWeatherData(claim.weatherDataRequestId))
            THEN IF ~(treasuryBalance >= policy.coverageAmount)
                    THEN "WS: insufficient treasury"
                 ELSE IF ~accept THEN "WS: payout failed"
                 ELSE "ok"
        ELSE "ok"

(* processClaim without the require on the policy status *)
processClaimError_noStatusCheck(claimId, accept) ==
    LET claim == getClaim(claimId)
        policy == getPolicy(claim.policyId)
        data == isDataAvailable(claim.weatherDataRequestId)
    IN  IF paused THEN "EnforcedPause"
        ELSE IF claim.processed THEN "WS: claim already processed"
        ELSE IF ~(data.available /\ data.verified) THEN "WS: weather data not ready"
        ELSE IF evaluateTrigger(policy, getWeatherData(claim.weatherDataRequestId))
            THEN IF ~(treasuryBalance >= policy.coverageAmount)
                    THEN "WS: insufficient treasury"
                 ELSE IF ~accept THEN "WS: payout failed"
                 ELSE "ok"
        ELSE "ok"

processClaimError(claimId, accept) ==
    LET claim == getClaim(claimId)
        policy == getPolicy(claim.policyId)
        data == isDataAvailable(claim.weatherDataRequestId)
    IN  IF reentrancyEntered THEN "ReentrancyGuardReentrantCall"
        ELSE IF paused THEN "EnforcedPause"
        ELSE IF claim.processed THEN "WS: claim already processed"
        ELSE IF policy.status # Active THEN "WS: policy not active"
        ELSE IF ~(data.available /\ data.verified) THEN "WS: weather data not ready"
        ELSE IF evaluateTrigger(policy, getWeatherData(claim.weatherDataRequestId))
            THEN IF ~(treasuryBalance >= policy.coverageAmount)
                    THEN "WS: insufficient treasury"
                 ELSE IF ~accept THEN "WS: payout failed"
                 ELSE "ok"
        ELSE "ok"

processClaim(caller, claimId, accept) ==
    LET claim == getClaim(claimId)
        policy == getPolicy(claim.policyId)
        weatherData == getWeatherData(claim.weatherDataRequestId)
        triggerMet == evaluateTrigger(policy, weatherData)
        payoutAmount == policy.coverageAmount
        actualValue == getRelevantWeatherValue(policy.triggerType, weatherData)
    IN  /\ processClaimError(claimId, accept) = "ok"
        /\ IF triggerMet
           THEN /\ claims' = [claims EXCEPT ![claimId] =
                                 [@ EXCEPT !.payoutAmount = payoutAmount,
                                           !.actualValue = actualValue,
                                           !.processed = TRUE]]
                /\ policies' = [policies EXCEPT ![claim.policyId].status = ClaimPaid]
                /\ treasuryBalance' = treasuryBalance - payoutAmount
                /\ totalClaimsPaid' = totalClaimsPaid + payoutAmount
                /\ balance' = IF accept THEN balance - payoutAmount ELSE balance
                /\ sent' = IF accept THEN Transfer(policy.policyholder, payoutAmount)
                           ELSE NoTransfer
                /\ callStack' = externalCall("processClaim", policy.policyholder, accept)
           ELSE /\ claims' = [claims EXCEPT ![claimId] =
                                 [@ EXCEPT !.actualValue = actualValue,
                                           !.processed = TRUE,
                                           !.payoutAmount = 0]]
                /\ sent' = NoTransfer
                /\ UNCHANGED callStack
                /\ UNCHANGED <<policies, treasuryBalance, totalClaimsPaid, balance>>
        /\ UNCHANGED <<holderPolicies, policyCounter, policyClaims, claimCounter,
                       configVars, totalPremiumsCollected, fdcVars, oracleVars, now>>


(* ------------------------------ admin ---------------------------------- *)
(* the modifier letting every caller through *)
onlyOwner_anyone(caller) == TRUE

onlyOwner(caller) == caller = Owner

(* the connector the insurance contract calls; initiateClaim and processClaim
   are modelled for the deployed connector, and its address is changed only
   in the specification of the administrative functions, which makes no
   call to it *)
setFlareDataConnectorError(caller, fdc) ==
    IF ~onlyOwner(caller) THEN "OwnableUnauthorizedAccount"
    ELSE IF fdc = ZeroAddress THEN "WS: invalid FDC address"
    ELSE "ok"

setFlareDataConnector(caller, fdc) ==
    /\ setFlareDataConnectorError(caller, fdc) = "ok"
    /\ flareDataConnector' = fdc
    /\ sent' = NoTransfer
    /\ UNCHANGED callStack
    /\ UNCHANGED <<policyVars, claimVars, basePremiumRate, minCoverageAmount,
                   maxCoverageAmount, minPolicyDuration, maxPolicyDuration, paused,
                   treasury, moneyVars, fdcVars, oracleVars, now>>

setTreasuryError(caller, newTreasury) ==
    IF ~onlyOwner(caller) THEN "OwnableUnauthorizedAccount"
    ELSE IF newTreasury = ZeroAddress THEN "WS: invalid treasury"
    ELSE "ok"

setTreasury(caller, newTreasury) ==
    /\ setTreasuryError(caller, newTreasury) = "ok"
    /\ treasury' = newTreasury
    /\ sent' = NoTransfer
    /\ UNCHANGED callStack
    /\ UNCHANGED <<policyVars, claimVars, basePremiumRate, minCoverageAmount,
                   maxCoverageAmount, minPolicyDuration, maxPolicyDuration, paused,
                   flareDataConnector,
                   moneyVars, fdcVars, oracleVars, now>>

setBasePremiumRateError(caller, rate) ==
    IF ~onlyOwner(caller) THEN "OwnableUnauthorizedAccount"
    ELSE IF ~(rate > 0 /\ rate <= MaxBasePremiumRate) THEN "WS: invalid rate"
    ELSE "ok"

setBasePremiumRate(caller, rate) ==
    /\ setBasePremiumRateError(caller, rate) = "ok"
    /\ basePremiumRate' = rate
    /\ sent' = NoTransfer
    /\ UNCHANGED callStack
    /\ UNCHANGED <<policyVars, claimVars, minCoverageAmount, maxCoverageAmount,
                   minPolicyDuration, maxPolicyDuration, treasury, flareDataConnector, paused,
                   moneyVars, fdcVars, oracleVars, now>>

setLimitsError(caller, min, max) ==
    IF ~onlyOwner(caller) THEN "OwnableUnauthorizedAccount"
    ELSE IF ~(min < max) THEN "WS: invalid limits"
    ELSE "ok"

setCoverageLimits(caller, min, max) ==
    /\ setLimitsError(caller, min, max) = "ok"
    /\ minCoverageAmount' = min
    /\ maxCoverageAmount' = max
    /\ sent' = NoTransfer
    /\ UNCHANGED callStack
    /\ UNCHANGED <<policyVars, claimVars, basePremiumRate, minPolicyDuration,
                   maxPolicyDuration, treasury, flareDataConnector, paused, moneyVars,
                   fdcVars, oracleVars, now>>

setDurationLimits(caller, min, max) ==
    /\ setLimitsError(caller, min, max) = "ok"
    /\ minPolicyDuration' = min
    /\ maxPolicyDuration' = max
    /\ sent' = NoTransfer
    /\ UNCHANGED callStack
    /\ UNCHANGED <<policyVars, claimVars, basePremiumRate, minCoverageAmount,
                   maxCoverageAmount, treasury, flareDataConnector, paused, moneyVars,
                   fdcVars, oracleVars, now>>

fundTreasuryError(caller, value) ==
    IF ~onlyOwner(caller) THEN "OwnableUnauthorizedAccount"
    ELSE IF ~(value > 0) THEN "WS: zero amount"
    ELSE "ok"

fundTreasury(caller, value) ==
    /\ fundTreasuryError(caller, value) = "ok"
    /\ treasuryBalance' = treasuryBalance + value
    /\ balance' = balance + value
    /\ sent' = NoTransfer
    /\ UNCHANGED callStack
    /\ UNCHANGED <<policyVars, claimVars, configVars, totalPremiumsCollected,
                   totalClaimsPaid, fdcVars, oracleVars, now>>

withdrawFromTreasuryError(caller, amount, accept) ==
    IF ~onlyOwner(caller) THEN "OwnableUnauthorizedAccount"
    ELSE IF ~(amount <= treasuryBalance) THEN "WS: insufficient balance"
    ELSE IF ~accept THEN "WS: withdrawal failed"
    ELSE "ok"

withdrawFromTreasury(caller, amount, accept) ==
    /\ withdrawFromTreasuryError(caller, amount, accept) = "ok"
    /\ treasuryBalance' = treasuryBalance - amount
    /\ balance' = IF accept THEN balance - amount ELSE balance
    /\ sent' = IF accept THEN Transfer(treasury, amount) ELSE NoTransfer
    /\ callStack' = externalCall("withdrawFromTreasury", treasury, accept)
    /\ UNCHANGED <<policyVars, claimVars, configVars, totalPremiumsCollected,
                   totalClaimsPaid, fdcVars, oracleVars, now>>

pauseError(caller) ==
    IF ~onlyOwner(caller) THEN "OwnableUnauthorizedAccount"
    ELSE IF paused THEN "EnforcedPause"
    ELSE "ok"

pause(caller) ==
    /\ pauseError(caller) = "ok"
    /\ paused' = TRUE
    /\ sent' = NoTransfer
    /\ UNCHANGED callStack
    /\ UNCHANGED <<policyVars, claimVars, basePremiumRate, minCoverageAmount,
                   maxCoverageAmount, minPolicyDuration, maxPolicyDuration, treasury, flareDataConnector,
                   moneyVars, fdcVars, oracleVars, now>>

unpauseError(caller) ==
    IF ~onlyOwner(caller) THEN "OwnableUnauthorizedAccount"
    ELSE IF ~paused THEN "ExpectedPause"
    ELSE "ok"

unpause(caller) ==
    /\ unpauseError(caller) = "ok"
    /\ paused' = FALSE
    /\ sent' = NoTransfer
    /\ UNCHANGED callStack
    /\ UNCHANGED <<policyVars, claimVars, basePremiumRate, minCoverageAmount,
                   maxCoverageAmount, minPolicyDuration, maxPolicyDuration, treasury, flareDataConnector,
                   moneyVars, fdcVars, oracleVars, now>>

(* receive(): a plain value transfer to the contract *)
(* receive that takes the value without adding it to treasuryBalance *)
receive_notCredited(caller, value) ==
    /\ balance' = balance + value
    /\ sent' = NoTransfer
    /\ UNCHANGED callStack
    /\ UNCHANGED <<policyVars, claimVars, configVars, treasuryBalance,
                   totalPremiumsCollected, totalClaimsPaid, fdcVars, oracleVars, now>>

receive(caller, value) ==
    /\ treasuryBalance' = treasuryBalance + value
    /\ balance' = balance + value
    /\ sent' = NoTransfer
    /\ UNCHANGED callStack
    /\ UNCHANGED <<policyVars, claimVars, configVars, totalPremiumsCollected,
                   totalClaimsPaid, fdcVars, oracleVars, now>>

(* ============================ WeatherOracle ============================ *)
oracleOnlyOwner(caller) == caller = Owner

recordWeatherDataError(caller, locationHash) ==
    IF ~oracleOnlyOwner(caller) THEN "WO: not owner"
    ELSE IF locationHash = ZeroHash THEN "WO: invalid location"
    ELSE "ok"

(* the checked arithmetic of _updateAverages leaves the word: the call reverts *)
updateAveragesOverflows(averages, temperature, rainfall, humidity, windSpeed) ==
    LET n == averages.dataPoints
    IN  /\ n > 0
        /\ \/ averages.avgTemperature * n + temperature > IntMax
           \/ averages.avgTemperature * n + temperature < IntMin
           \/ averages.avgTemperature * n > IntMax
           \/ averages.avgTemperature * n < IntMin
           \/ averages.avgRainfall * n + rainfall > UintMax
           \/ averages.avgHumidity * n + humidity > UintMax
           \/ averages.avgWindSpeed * n + windSpeed > UintMax

(* the averages taken as the mean of the old average and the new value *)
updateAverages_unweighted(averages, temperature, rainfall, humidity, windSpeed) ==
    LET n == averages.dataPoints
    IN  IF n = 0
        THEN [avgTemperature |-> temperature, avgRainfall |-> rainfall,
              avgHumidity |-> humidity, avgWindSpeed |-> windSpeed,
              dataPoints |-> n + 1, lastUpdated |-> now]
        ELSE [avgTemperature |-> TruncDiv(averages.avgTemperature + temperature, 2),
              avgRainfall |-> (averages.avgRainfall + rainfall) \div 2,
              avgHumidity |-> (averages.avgHumidity + humidity) \div 2,
              avgWindSpeed |-> (averages.avgWindSpeed + windSpeed) \div 2,
              dataPoints |-> n + 1, lastUpdated |-> now]

updateAverages(averages, temperature, rainfall, humidity, windSpeed) ==
    LET n == averages.dataPoints
    IN  IF n = 0
        THEN [avgTemperature |-> temperature, avgRainfall |-> rainfall,
              avgHumidity |-> humidity, avgWindSpeed |-> windSpeed,
              dataPoints |-> n + 1, lastUpdated |-> now]
        ELSE [avgTemperature |-> TruncDiv(averages.avgTemperature * n + temperature, n + 1),
              avgRainfall |-> (averages.avgRainfall * n + rainfall) \div (n + 1),
              avgHumidity |-> (averages.avgHumidity * n + humidity) \div (n + 1),
              avgWindSpeed |-> (averages.avgWindSpeed * n + windSpeed) \div (n + 1),
              dataPoints |-> n + 1, lastUpdated |-> now]

recordWeatherData(caller, locationHash, temperature, rainfall, humidity, windSpeed, sourceHash) ==
    /\ recordWeatherDataError(caller, locationHash) = "ok"
    /\ ~updateAveragesOverflows(locationAverages[locationHash], temperature,
                                rainfall, humidity, windSpeed)
    /\ locationHistory' =
          [locationHistory EXCEPT ![locationHash] =
              Append(@, [timestamp |-> now, temperature |-> temperature,
                         rainfall |-> rainfall, humidity |-> humidity,
                         windSpeed |-> windSpeed, sourceHash |-> sourceHash])]
    /\ locationAverages' =
          [locationAverages EXCEPT ![locationHash] =
              updateAverages(@, temperature, rainfall, humidity, windSpeed)]
    /\ sent' = NoTransfer
    /\ UNCHANGED callStack
    /\ UNCHANGED <<insVars, fdcVars, now>>

(* submitToFDC forwards to the connector, which sees the oracle contract as sender *)
submitToFDCError(caller, requestId) ==
    IF ~oracleOnlyOwner(caller) THEN "WO: not owner"
    ELSE fulfillError(OracleAddr, requestId)

submitToFDC(caller, requestId, temperature, rainfall, humidity, windSpeed) ==
    /\ submitToFDCError(caller, requestId) = "ok"
    /\ fulfillStore(requestId, temperature, rainfall, humidity, windSpeed)
    /\ sent' = NoTransfer
    /\ UNCHANGED callStack
    /\ UNCHANGED <<insVars, authVars, oracleVars, now>>

(* ============================ PolicyFactory ============================ *)
(* the templates written by the constructor (_initializeDefaultTemplates);
   thresholds in whole millimetres, degrees and km/h, durations in days *)
templates ==
    << [name |-> "Drought Protection", triggerType |-> RainfallBelow,
        triggerThreshold |-> 50, coverageMultiplier |-> 10000, duration |-> 90,
        isActive |-> TRUE],
       [name |-> "Flood Protection", triggerType |-> RainfallAbove,
        triggerThreshold |-> 200, coverageMultiplier |-> 12000, duration |-> 90,
        isActive |-> TRUE],
       [name |-> "Frost Protection", triggerType |-> TemperatureBelow,
        triggerThreshold |-> 0, coverageMultiplier |-> 8000, duration |-> 30,
        isActive |-> TRUE],
       [name |-> "Heat Wave Protection", triggerType |-> TemperatureAbove,
        triggerThreshold |-> 40, coverageMultiplier |-> 10000, duration |-> 60,
        isActive |-> TRUE],
       [name |-> "Storm Protection", triggerType |-> WindSpeedAbove,
        triggerThreshold |-> 80, coverageMultiplier |-> 15000, duration |-> 180,
        isActive |-> TRUE] >>
templateCount == Len(templates)

(* PolicyFactory declares no receive and no payable fallback function: a
   value transfer to it fails *)
factoryAcceptsValue == FALSE

(* (baseCoverage * template.coverageMultiplier) / 10000 *)
templateCoverage(templateId, baseCoverage) ==
    MulDiv(baseCoverage, templates[templateId].coverageMultiplier, BasisPoints)

estimatePremium(templateId, baseCoverage) ==
    calculatePremium(templateCoverage(templateId, baseCoverage),
                     templates[templateId].duration, templates[templateId].triggerType)

(* createPolicyFromTemplate forwards msg.value to createPolicy, which sees
   the factory as msg.sender *)
createPolicyFromTemplateError(caller, templateId, locationHash, baseCoverage, cropType, farmSize, value) ==
    IF ~(templateId <= templateCount /\ templateId > 0) THEN "PF: invalid template"
    ELSE IF ~templates[templateId].isActive THEN "PF: template not active"
    ELSE createPolicyError(FactoryAddr, locationHash, templates[templateId].triggerType,
                           templates[templateId].triggerThreshold,
                           templateCoverage(templateId, baseCoverage),
                           templates[templateId].duration, cropType, farmSize,
                           value, factoryAcceptsValue)

createPolicyFromTemplate(caller, templateId, locationHash, baseCoverage, cropType, farmSize, value) ==
    /\ createPolicyFromTemplateError(caller, templateId, locationHash, baseCoverage,
                                     cropType, farmSize, value) = "ok"
    /\ createPolicy(FactoryAddr, locationHash, templates[templateId].triggerType,
                    templates[templateId].triggerThreshold,
                    templateCoverage(templateId, baseCoverage),
                    templates[templateId].duration, cropType, farmSize,
                    value, factoryAcceptsValue)

(* ============================ oracle service ============================ *)
(* Math.round(n / d) for d > 0: the nearest integer, halves upwards *)
RoundDiv(n, d) == (2 * n + d) \div (2 * d)

(* the account of the service's wallet; recordWeatherData is owner-only and
   fulfillWeatherData needs an authorized provider *)
ServiceWallet == Owner

(* getMockWeatherData: a random reading labelled 'Mock Location'; the random
   draw is the argument.  Readings are in whole degrees, millimetres,
   per cent and km/h: one unit is 100 of the contracts' fixed-point units. *)
getMockWeatherData(draw) ==
    [temperature |-> draw.temperature, rainfall |-> draw.rainfall,
     humidity |-> draw.humidity, windSpeed |-> draw.windSpeed,
     location |-> "Mock Location"]

(* fetchWeatherData: the provider's answer converted to the contracts' units
   (tenths of a degree, of a millimetre and of m/s in the answer), or the
   mock reading when no API key is configured, the request fails or the
   answer is not ok *)
fetchWeatherData(apiKey, response, draw) ==
    IF ~apiKey THEN getMockWeatherData(draw)
    ELSE IF ~response.ok THEN getMockWeatherData(draw)
    ELSE [temperature |-> RoundDiv(response.temp, 10),
          rainfall |-> RoundDiv(response.rain, 10),
          humidity |-> response.humidity,
          windSpeed |-> RoundDiv(response.speed * 36, 100),
          location |-> response.name]

(* recordWeatherData of the service: fetch, then one transaction to the
   oracle contract with the fixed source hash *)
serviceRecordWeatherData(apiKey, response, draw, locationHash) ==
    LET weather == fetchWeatherData(apiKey, response, draw)
        sourceHash == "OpenWeatherMap"
    IN  recordWeatherData(ServiceWallet, locationHash, weather.temperature,
                          weather.rainfall, weather.humidity, weather.windSpeed,
                          sourceHash)

(* fulfillDataRequest of the service: fetch, then one transaction to the
   connector *)
fulfillDataRequest(apiKey, response, draw, requestId) ==
    LET weather == fetchWeatherData(apiKey, response, draw)
    IN  fulfillWeatherData(ServiceWallet, requestId, weather.temperature,
                           weather.rainfall, weather.humidity, weather.windSpeed)

(* ------------------------- calculateRiskScore -------------------------- *)
checkTrigger(data, triggerType, threshold) ==
    IF triggerType = 0 THEN toInt256(data.rainfall) < threshold
    ELSE IF triggerType = 1 THEN toInt256(data.rainfall) > threshold
    ELSE IF triggerType = 2 THEN data.temperature < threshold
    ELSE IF triggerType = 3 THEN data.temperature > threshold
    ELSE IF triggerType = 4 THEN toInt256(data.windSpeed) > threshold
    ELSE FALSE

(* a view function: the score of the location's history under a trigger *)
calculateRiskScore(locationHash, triggerType, threshold) ==
    LET history == IF locationHash \in DOMAIN locationHistory
                   THEN locationHistory[locationHash] ELSE <<>>
        sampleSize == IF Len(history) > RiskSampleWindow
                      THEN RiskSampleWindow ELSE Len(history)
        startIndex == Len(history) - sampleSize
        triggerCount ==
            Cardinality({i \in (startIndex + 1)..Len(history) :
                            checkTrigger(history[i], triggerType, threshold)})
    IN  IF Len(history) = 0 THEN DefaultRiskScore
        ELSE (triggerCount * 100) \div sampleSize

(* ============================== time =================================== *)
(* block time only moves forward: the next block is mined at a later time t *)
Tick(t) ==
    /\ t > now
    /\ t <= MaxTime
    /\ now' = t
    /\ sent' = NoTransfer
    /\ UNCHANGED callStack
    /\ UNCHANGED <<insVars, fdcVars, oracleVars>>

(* ========================== initial state ============================== *)
(* after deployment by Owner: constructor of each contract has run *)
Init ==
    /\ policies = <<>>
    /\ holderPolicies = [a \in Accounts |-> <<>>]
    /\ policyCounter = 0
    /\ claims = <<>>
    /\ policyClaims = <<>>
    /\ claimCounter = 0
    /\ basePremiumRate = DefaultBasePremiumRate
    /\ minCoverageAmount = DefaultMinCoverage
    /\ maxCoverageAmount = DefaultMaxCoverage
    /\ minPolicyDuration = DefaultMinDuration
    /\ maxPolicyDuration = DefaultMaxDuration
    /\ treasury = TreasuryAddr
    /\ flareDataConnector = FdcAddr
    /\ treasuryBalance = 0
    /\ totalPremiumsCollected = 0
    /\ totalClaimsPaid = 0
    /\ paused = FALSE
    /\ balance = 0
    /\ weatherDataStorage = <<>>
    /\ latestRequestByLocation = <<>>
    /\ requestCounter = 0
    /\ authorizedProviders = [a \in Accounts |-> a = Owner]
    /\ fdcOwner = Owner
    /\ locationHistory = [l \in LocationHashes |-> <<>>]
    /\ locationAverages = [l \in LocationHashes |-> EmptyAverages]
    /\ now = 0
    /\ sent = NoTransfer
    /\ callStack = <<>>

(* ============================= inputs ================================== *)
Thresholds == {5}
TypeInputs == {RainfallBelow, TemperatureAbove, WindSpeedAbove}
ValueInputs == {MinimumPremium - 1, MinimumPremium, MinimumPremium + 50}
PolicyIds == 0..(policyCounter + 1)
ClaimIds == 0..(claimCounter + 1)
FundInputs == {0, Ether}
WithdrawInputs == {treasuryBalance, Ether, treasuryBalance + 1}
Readings ==
    { [temperature |-> -3, rainfall |-> 3, humidity |-> 65, windSpeed |-> 4],
      [temperature |-> 5, rainfall |-> 5, humidity |-> 60, windSpeed |-> 5],
      [temperature |-> 8, rainfall |-> 9, humidity |-> 70, windSpeed |-> 7] }
RequestIds == DOMAIN weatherDataStorage \cup {ZeroId}
BlockTimes == {MaxTime - 1, MaxTime}

SourceInputs == {"OpenWeatherMap"}

(* ======================== insurance system ============================= *)
(* policy and claim lifecycle, treasury funding, pausing, and the          *)
(* connector's fulfilment of the requests opened by claims                 *)
CreatePolicyStep ==
    \E caller \in Farmers, triggerType \in TypeInputs, threshold \in Thresholds,
       locationHash \in {ZeroHash, 1}, value \in ValueInputs, accept \in BOOLEAN :
       /\ policyCounter < MaxPolicies
       /\ createPolicy(caller, locationHash, triggerType, threshold, Ether,
                       DefaultMinDuration, "Corn", 500, value, accept)

CancelPolicyStep ==
    \E caller \in Farmers, policyId \in PolicyIds, accept \in BOOLEAN :
       cancelPolicy(caller, policyId, accept)

ProcessClaimStep ==
    \E caller \in {Owner, "farmer1"}, claimId \in ClaimIds, accept \in BOOLEAN :
       processClaim(caller, claimId, accept)

FundStep ==
    \E caller \in {Owner, "farmer1"}, value \in FundInputs :
       /\ balance + value <= MaxFunds * Ether
       /\ fundTreasury(caller, value)

ReceiveStep ==
    \E caller \in {"farmer2"}, value \in {Ether} :
       /\ balance + value <= MaxFunds * Ether
       /\ receive(caller, value)

WithdrawStep ==
    \E caller \in {Owner, "farmer1"}, amount \in WithdrawInputs, accept \in BOOLEAN :
       withdrawFromTreasury(caller, amount, accept)

FulfillStep ==
    \E caller \in {Owner, Provider}, requestId \in RequestIds, r \in Readings :
       fulfillWeatherData(caller, requestId, r.temperature, r.rainfall,
                          r.humidity, r.windSpeed)

Next ==
    \/ CreatePolicyStep
    \/ CancelPolicyStep
    \/ \E caller \in Farmers, policyId \in PolicyIds :
          claimCounter < MaxClaims /\ initiateClaim(caller, policyId)
    \/ ProcessClaimStep
    \/ FundStep
    \/ ReceiveStep
    \/ WithdrawStep
    \/ \E caller \in {Owner, "farmer1"} : pause(caller)
    \/ \E caller \in {Owner, "farmer1"} : unpause(caller)
    \/ FulfillStep
    \/ \E t \in BlockTimes : Tick(t)

Spec == Init /\ [][Next]_vars

(* ========================== oracle system ============================== *)
(* the connector on its own, with the WeatherOracle contract as one of its *)
(* providers: requests from any caller, fulfilment, the provider           *)
(* allow-list, ownership, and the oracle's history of recorded readings    *)
OracleCallers == {Owner, Provider, "farmer1"}
OracleBlockTimes == {MaxTime}

NextOracle ==
    \/ \E caller \in {"farmer1"}, locationHash \in {ZeroHash} \cup LocationHashes :
          requestCounter < MaxRequests /\ requestWeatherData(caller, locationHash, now)
    \/ \E caller \in OracleCallers, requestId \in RequestIds, r \in Readings :
          fulfillWeatherData(caller, requestId, r.temperature, r.rainfall,
                             r.humidity, r.windSpeed)
    \/ \E caller \in OracleCallers, provider \in {ZeroAddress, Provider, OracleAddr} :
          authorizeProvider(caller, provider)
    \/ \E caller \in OracleCallers, provider \in {Owner, Provider} :
          revokeProvider(caller, provider)
    \/ \E caller \in OracleCallers, newOwner \in {ZeroAddress, Provider} :
          fdcTransferOwnership(caller, newOwner)
    \/ \E caller \in OracleCallers, locationHash \in {ZeroHash, 1},
          r \in Readings, sourceHash \in SourceInputs :
          /\ locationHash \in LocationHashes => Len(locationHistory[locationHash]) < MaxHistory
          /\ recordWeatherData(caller, locationHash, r.temperature, r.rainfall,
                               r.humidity, r.windSpeed, sourceHash)
    \/ \E caller \in OracleCallers, requestId \in RequestIds, r \in Readings :
          submitToFDC(caller, requestId, r.temperature, r.rainfall,
                      r.humidity, r.windSpeed)
    \/ \E t \in OracleBlockTimes : Tick(t)

SpecOracle == Init /\ [][NextOracle]_vars

(* ========================= trigger evaluation ========================== *)
(* one policy of every trigger type and threshold sign, one claim on it,   *)
(* and readings on both sides of, equal to, and far from the threshold,    *)
(* up to the ends of the word range                                        *)
TriggerThresholds == {-3, 0, 5}
TriggerTemperatures == {IntMin, -4, -3, 0, 5, 6}
TriggerMagnitudes == {0, 1, 5, 6, IntMax + 1, UintMax}
TriggerReadings ==
    { [temperature |-> t, rainfall |-> r, humidity |-> 65, windSpeed |-> w] :
        t \in TriggerTemperatures, r \in TriggerMagnitudes, w \in TriggerMagnitudes }

NextTrigger ==
    \/ \E triggerType \in TriggerTypes, threshold \in TriggerThresholds :
          /\ policyCounter < MaxPolicies
          /\ createPolicy("farmer1", 1, triggerType, threshold, Ether,
                          DefaultMinDuration, "Corn", 500,
                          calculatePremium(Ether, DefaultMinDuration, triggerType), TRUE)
    \/ /\ treasuryBalance < Ether
       /\ fundTreasury(Owner, Ether)
    \/ \E policyId \in PolicyIds :
          claimCounter < MaxTriggerClaims /\ initiateClaim("farmer1", policyId)
    \/ \E requestId \in RequestIds, r \in TriggerReadings :
          fulfillWeatherData(Owner, requestId, r.temperature, r.rainfall,
                             r.humidity, r.windSpeed)
    \/ \E claimId \in ClaimIds : processClaim(Owner, claimId, TRUE)

SpecTrigger == Init /\ [][NextTrigger]_vars

(* ========================== administration ============================= *)
(* the policy and claim lifecycle together with the owner's setters        *)
RateInputs == {0, 2 * DefaultBasePremiumRate, MaxBasePremiumRate + 1}
CoverageLimitInputs == {<<2 * Ether, 3 * Ether>>, <<Ether, Ether>>}
DurationLimitInputs == {<<1, 3>>, <<3, 3>>}
TreasuryInputs == {ZeroAddress, "farmer2"}

NextAdmin ==
    \/ CreatePolicyStep
    \/ CancelPolicyStep
    \/ \E caller \in Farmers, policyId \in PolicyIds :
          claimCounter < MaxAdminClaims /\ initiateClaim(caller, policyId)
    \/ ProcessClaimStep
    \/ FundStep
    \/ FulfillStep
    \/ \E caller \in {Owner, "farmer1"}, newTreasury \in TreasuryInputs :
          setTreasury(caller, newTreasury)
    \/ \E caller \in {Owner, "farmer1"}, rate \in RateInputs :
          setBasePremiumRate(caller, rate)
    \/ \E caller \in {Owner, "farmer1"}, limits \in CoverageLimitInputs :
          setCoverageLimits(caller, limits[1], limits[2])
    \/ \E caller \in {Owner, "farmer1"}, limits \in DurationLimitInputs :
          setDurationLimits(caller, limits[1], limits[2])
    \/ \E caller \in {Owner, "farmer1"} : pause(caller)
    \/ \E caller \in {Owner, "farmer1"} : unpause(caller)
    \/ \E t \in BlockTimes : Tick(t)

SpecAdmin == Init /\ [][NextAdmin]_vars

(* ------------- policy creation over the boundary inputs ---------------- *)
(* createPolicy with every argument on both sides of each require of the
   function, under limits and rates the owner has changed *)
CreateCoverages ==
    {minCoverageAmount - 1, minCoverageAmount, maxCoverageAmount, maxCoverageAmount + 1}
CreateDurations ==
    {minPolicyDuration - 1, minPolicyDuration, maxPolicyDuration, maxPolicyDuration + 1}
CreateTypes == {RainfallBelow, RainfallAbove, TemperatureBelow}
(* location, crop type and farm size: all valid, and each one invalid in turn *)
CreateFarms ==
    { [locationHash |-> 1, cropType |-> "Corn", farmSize |-> 500],
      [locationHash |-> ZeroHash, cropType |-> "Corn", farmSize |-> 500],
      [locationHash |-> 1, cropType |-> "", farmSize |-> 500],
      [locationHash |-> 1, cropType |-> "Corn", farmSize |-> 0] }
Overpayment == 50
CreateValues(coverageAmount, duration, triggerType) ==
    LET premium == calculatePremium(coverageAmount, duration, triggerType)
    IN  {premium - 1, premium, premium + Overpayment}
CreateRates == {2 * DefaultBasePremiumRate, MaxBasePremiumRate + 1}
CreateBlockTimes == {MaxTime - 1}

(* arguments of calculatePremium, which anyone may call with any values:
   coverages and durations inside and outside the limits, with and without
   a remainder in each division *)
PremiumCoverages == {0, DefaultMinCoverage, 12345, Ether, 1234567, 3 * Ether, 20 * Ether}
PremiumDurations == {0, 3, 4, 7, 30, 364, 365, 366, 730}

NextCreate ==
    \/ \E caller \in Farmers, farm \in CreateFarms,
          triggerType \in CreateTypes, triggerThreshold \in Thresholds,
          coverageAmount \in CreateCoverages, duration \in CreateDurations,
          accept \in BOOLEAN :
          \E value \in CreateValues(coverageAmount, duration, triggerType) :
             /\ policyCounter < MaxPolicies
             /\ createPolicy(caller, farm.locationHash, triggerType, triggerThreshold,
                             coverageAmount, duration, farm.cropType, farm.farmSize,
                             value, accept)
    \/ \E caller \in {Owner, "farmer1"}, rate \in CreateRates :
          setBasePremiumRate(caller, rate)
    \/ \E caller \in {Owner, "farmer1"}, limits \in CoverageLimitInputs :
          setCoverageLimits(caller, limits[1], limits[2])
    \/ \E caller \in {Owner, "farmer1"}, limits \in DurationLimitInputs :
          setDurationLimits(caller, limits[1], limits[2])
    \/ \E caller \in {Owner, "farmer1"} : pause(caller)
    \/ \E caller \in {Owner, "farmer1"} : unpause(caller)
    \/ \E t \in CreateBlockTimes : Tick(t)

SpecCreate == Init /\ [][NextCreate]_vars

(* ----------- identifiers of policies, claims and requests -------------- *)
(* two holders, several claims, and requests made both by initiateClaim and
   directly, for the same location, timestamp and block time *)
IdReading == [temperature |-> 5, rainfall |-> 3, humidity |-> 60, windSpeed |-> 4]

NextIds ==
    \/ \E caller \in Farmers :
          /\ policyCounter < MaxIdPolicies
          /\ createPolicy(caller, 1, RainfallBelow, 5, Ether, DefaultMinDuration,
                          "Corn", 500, MinimumPremium, TRUE)
    \/ \E caller \in Farmers, policyId \in PolicyIds :
          /\ claimCounter < MaxIdClaims
          /\ requestCounter < MaxIdRequests
          /\ initiateClaim(caller, policyId)
    \/ \E timestamp \in {0, now} :
          /\ requestCounter < MaxIdRequests
          /\ requestWeatherData("farmer2", 1, timestamp)
    \/ \E requestId \in RequestIds :
          fulfillWeatherData(Owner, requestId, IdReading.temperature,
                             IdReading.rainfall, IdReading.humidity,
                             IdReading.windSpeed)
    \/ \E t \in BlockTimes : Tick(t)

SpecIds == Init /\ [][NextIds]_vars

(* ------------------ running averages of the oracle --------------------- *)
(* readings 10, 20, 30, a negative temperature, zero, and the largest values
   of the word, recorded in any order *)
AverageReadings ==
    { [temperature |-> 10, rainfall |-> 10, humidity |-> 10, windSpeed |-> 10],
      [temperature |-> 20, rainfall |-> 20, humidity |-> 20, windSpeed |-> 20],
      [temperature |-> 30, rainfall |-> 30, humidity |-> 30, windSpeed |-> 30],
      [temperature |-> -7, rainfall |-> 5, humidity |-> 6, windSpeed |-> 8],
      [temperature |-> 0, rainfall |-> 0, humidity |-> 0, windSpeed |-> 0],
      [temperature |-> IntMax, rainfall |-> UintMax, humidity |-> UintMax,
       windSpeed |-> UintMax] }

NextAverages ==
    \/ \E caller \in OracleCallers, locationHash \in {ZeroHash, 1}, r \in AverageReadings :
          /\ locationHash \in LocationHashes
                => Len(locationHistory[locationHash]) < MaxAverageReadings
          /\ recordWeatherData(caller, locationHash, r.temperature, r.rainfall,
                               r.humidity, r.windSpeed, 1)
    \/ \E caller \in OracleCallers, r \in AverageReadings :
          /\ Len(locationHistory[2]) < 1
          /\ r.rainfall = 20
          /\ recordWeatherData(caller, 2, r.temperature, r.rainfall,
                               r.humidity, r.windSpeed, 1)
    \/ \E t \in OracleBlockTimes : Tick(t)

SpecAverages == Init /\ [][NextAverages]_vars

(* ------------------- the administrative functions --------------------- *)
(* every owner-only function of the insurance contract and of the connector,
   called by the owner and by others, with premiums and funding to withdraw *)
OwnerRates == {0, 1, MaxBasePremiumRate, MaxBasePremiumRate + 1}
ConnectorInputs == {ZeroAddress, OtherFdcAddr}

NextOwner ==
    \/ CreatePolicyStep
    \/ FundStep
    \/ WithdrawStep
    \/ \E caller \in {Owner, "farmer1"}, newTreasury \in TreasuryInputs :
          setTreasury(caller, newTreasury)
    \/ \E caller \in {Owner, "farmer1"}, rate \in OwnerRates :
          setBasePremiumRate(caller, rate)
    \/ \E caller \in {Owner, "farmer1"}, limits \in CoverageLimitInputs :
          setCoverageLimits(caller, limits[1], limits[2])
    \/ \E caller \in {Owner, "farmer1"}, limits \in DurationLimitInputs :
          setDurationLimits(caller, limits[1], limits[2])
    \/ \E caller \in {Owner, "farmer1"}, fdc \in ConnectorInputs :
          setFlareDataConnector(caller, fdc)
    \/ \E caller \in OracleCallers, provider \in {ZeroAddress, Provider} :
          authorizeProvider(caller, provider)
    \/ \E caller \in OracleCallers, provider \in {Owner, Provider} :
          revokeProvider(caller, provider)
    \/ \E caller \in OracleCallers, newOwner \in {ZeroAddress, Provider} :
          fdcTransferOwnership(caller, newOwner)

SpecOwner == Init /\ [][NextOwner]_vars

(* ------------------------------ factory -------------------------------- *)
(* policies bought through the factory and directly, by two farmers, and
   what the farmers can then do with them *)
TemplateIds == {0, 1, 3, templateCount, templateCount + 1}
FactoryCoverages == {Ether}
FactoryOverpayments == {0, Overpayment}
(* msg.value: the estimated premium of the template, or more *)
FactoryValue(templateId, baseCoverage, overpayment) ==
    IF templateId \in 1..templateCount
    THEN estimatePremium(templateId, baseCoverage) + overpayment
    ELSE MinimumPremium + overpayment

NextFactory ==
    \/ \E caller \in Farmers, templateId \in TemplateIds, baseCoverage \in FactoryCoverages,
          overpayment \in FactoryOverpayments :
          /\ policyCounter < MaxFactoryPolicies
          /\ createPolicyFromTemplate(caller, templateId, 1, baseCoverage, "Wheat", 300,
                                      FactoryValue(templateId, baseCoverage, overpayment))
    \/ \E caller \in Farmers, value \in {MinimumPremium}, accept \in BOOLEAN :
          /\ policyCounter < MaxFactoryPolicies
          /\ createPolicy(caller, 1, RainfallBelow, 5, Ether, DefaultMinDuration,
                          "Wheat", 300, value, accept)
    \/ \E caller \in Farmers, policyId \in PolicyIds, accept \in BOOLEAN :
          cancelPolicy(caller, policyId, accept)
    \/ \E caller \in Farmers, policyId \in PolicyIds :
          claimCounter < MaxClaims /\ initiateClaim(caller, policyId)
    \/ \E t \in {1, DefaultMinDuration} : Tick(t)

SpecFactory == Init /\ [][NextFactory]_vars

(* --------------------------- oracle service ---------------------------- *)
(* answers of the weather provider: not ok, or ok with values in tenths *)
ProviderResponses ==
    { [ok |-> FALSE, temp |-> 0, rain |-> 0, humidity |-> 0, speed |-> 0, name |-> ""] }
    \cup { [ok |-> TRUE, temp |-> t, rain |-> r, humidity |-> 60, speed |-> 50,
            name |-> "Iowa"] : t \in {196, 205}, r \in {0, 118} }
(* draws of the mock generator *)
MockDraws ==
    { [temperature |-> t, rainfall |-> r, humidity |-> 60, windSpeed |-> 18] :
         t \in {20, 21}, r \in {0, 12} }

(* the monitored location *)
ServiceLocations == {1}

NextService ==
    \/ \E caller \in {"farmer1"}, locationHash \in ServiceLocations :
          requestCounter < MaxRequests /\ requestWeatherData(caller, locationHash, now)
    \/ \E apiKey \in BOOLEAN, response \in ProviderResponses, draw \in MockDraws,
          locationHash \in ServiceLocations :
          /\ Len(locationHistory[locationHash]) < MaxHistory
          /\ serviceRecordWeatherData(apiKey, response, draw, locationHash)
    \/ \E apiKey \in BOOLEAN, response \in ProviderResponses, draw \in MockDraws,
          requestId \in RequestIds :
          fulfillDataRequest(apiKey, response, draw, requestId)

SpecService == Init /\ [][NextService]_vars

(* --------------------- calls made from a callback ---------------------- *)
(* One transaction at a time: while a function waits for its value transfer
   to return (callStack not empty), the only code that runs is the
   recipient's, so every call comes from Attacker, and the only other step
   is the return of the transfer.  A call made from the callback is a whole
   handler, as everywhere else. *)
Senders == IF callStack = <<>> THEN {Owner, Attacker} ELSE {Attacker}

ReentryTreasuries == {Attacker}

(* the return of recipient.call{value: ...}(""), after which the waiting
   function runs to its end (require(success), emit) *)
callReturns ==
    /\ callStack # <<>>
    /\ callStack' = SubSeq(callStack, 1, Len(callStack) - 1)
    /\ sent' = NoTransfer
    /\ UNCHANGED <<insVars, fdcVars, oracleVars, now>>

NextReentry ==
    \/ \E caller \in Senders, value \in ValueInputs, accept \in BOOLEAN :
          /\ Len(callStack) < MaxCallDepth
          /\ policyCounter < MaxReentryPolicies
          /\ createPolicy(caller, 1, RainfallBelow, 5, Ether, DefaultMinDuration,
                          "Corn", 500, value, accept)
    \/ \E caller \in Senders, policyId \in PolicyIds, accept \in BOOLEAN :
          /\ Len(callStack) < MaxCallDepth
          /\ cancelPolicy(caller, policyId, accept)
    \/ \E caller \in Senders, policyId \in PolicyIds :
          /\ Len(callStack) < MaxCallDepth
          /\ claimCounter < MaxReentryClaims
          /\ initiateClaim(caller, policyId)
    \/ \E caller \in Senders, claimId \in ClaimIds, accept \in BOOLEAN :
          /\ Len(callStack) < MaxCallDepth
          /\ processClaim(caller, claimId, accept)
    \/ \E caller \in Senders, value \in {Ether} :
          /\ Len(callStack) < MaxCallDepth
          /\ balance + value <= MaxFunds * Ether
          /\ receive(caller, value)
    \/ \E caller \in Senders, value \in FundInputs :
          /\ Len(callStack) < MaxCallDepth
          /\ balance + value <= MaxFunds * Ether
          /\ fundTreasury(caller, value)
    \/ \E caller \in Senders, amount \in {treasuryBalance}, accept \in BOOLEAN :
          /\ Len(callStack) < MaxCallDepth
          /\ withdrawFromTreasury(caller, amount, accept)
    \/ \E caller \in Senders, newTreasury \in ReentryTreasuries :
          /\ Len(callStack) < MaxCallDepth
          /\ setTreasury(caller, newTreasury)
    \/ /\ callStack = <<>>
       /\ \E requestId \in RequestIds, r \in Readings :
             fulfillWeatherData(Owner, requestId, r.temperature, r.rainfall,
                                r.humidity, r.windSpeed)
    \/ callReturns

SpecReentry == Init /\ [][NextReentry]_vars

(* ---------------------- risk score of the oracle ----------------------- *)
(* histories longer than the sample window: readings that meet the triggers
   first and readings that do not afterwards, or one reading beyond the
   signed range followed by readings that do not *)
RiskHigh == [temperature |-> 1, rainfall |-> 2, humidity |-> 2, windSpeed |-> 2]
RiskLow == [temperature |-> 0, rainfall |-> 0, humidity |-> 0, windSpeed |-> 0]
RiskWrap == [temperature |-> 0, rainfall |-> IntMax + 1, humidity |-> 0,
             windSpeed |-> IntMax + 1]
RiskThresholds == {0, 1, 2}
RiskTypes == TriggerTypes \cup {5}

NextRisk ==
    \/ \E caller \in OracleCallers, locationHash \in {ZeroHash, 1} :
          /\ locationHash = 1 =>
                /\ Len(locationHistory[1]) < MaxRiskHistory
                /\ \A i \in 1..Len(locationHistory[1]) :
                      locationHistory[1][i].rainfall = RiskHigh.rainfall
          /\ recordWeatherData(caller, locationHash, RiskHigh.temperature,
                               RiskHigh.rainfall, RiskHigh.humidity,
                               RiskHigh.windSpeed, 1)
    \/ /\ Len(locationHistory[1]) < MaxRiskHistory
       /\ recordWeatherData(Owner, 1, RiskLow.temperature, RiskLow.rainfall,
                            RiskLow.humidity, RiskLow.windSpeed, 1)
    \/ /\ Len(locationHistory[1]) = 0
       /\ recordWeatherData(Owner, 1, RiskWrap.temperature, RiskWrap.rainfall,
                            RiskWrap.humidity, RiskWrap.windSpeed, 1)

SpecRisk == Init /\ [][NextRisk]_vars

(* ============================= properties ============================== *)
(* the rule of the specification for a met trigger, on the reading's own   *)
(* values: strict comparison of the relevant field with the threshold      *)
TriggerRule(triggerType, threshold, reading) ==
    CASE triggerType = RainfallBelow -> reading.rainfall < threshold
      [] triggerType = RainfallAbove -> reading.rainfall > threshold
      [] triggerType = TemperatureBelow -> reading.temperature < threshold
      [] triggerType = TemperatureAbove -> reading.temperature > threshold
      [] triggerType = WindSpeedAbove -> reading.windSpeed > threshold
      [] OTHER -> FALSE

(* the field of the reading that the trigger type is about *)
RelevantField(triggerType, reading) ==
    CASE triggerType \in {RainfallBelow, RainfallAbove} -> reading.rainfall
      [] triggerType \in {TemperatureBelow, TemperatureAbove} -> reading.temperature
      [] triggerType = WindSpeedAbove -> reading.windSpeed
      [] OTHER -> 0

PolicyOf(c) == getPolicy(getClaim(c).policyId)
ReadingOf(c) == getWeatherData(getClaim(c).weatherDataRequestId)
RuleMet(c) ==
    TriggerRule(PolicyOf(c).triggerType, PolicyOf(c).triggerThreshold, ReadingOf(c))

(* this step is a processClaim of claim c that did not revert *)
Processes(c) == ~claims[c].processed /\ claims'[c].processed

(* C1: a processed claim is never processed again: every later            *)
(* processClaim of it is rejected as already processed (or as paused,     *)
(* while the contract is paused), its record never changes, and every     *)
(* payout is the payout of exactly one claim that the step turns from     *)
(* unprocessed to processed, so no claim is paid twice.                   *)
C1_ProcessedAtMostOnce ==
    [][ /\ \A c \in DOMAIN claims :
              claims[c].processed =>
                 /\ claims'[c] = claims[c]
                 /\ \A accept \in BOOLEAN :
                       processClaimError(c, accept) =
                          IF paused THEN "EnforcedPause"
                          ELSE "WS: claim already processed"
        /\ totalClaimsPaid' # totalClaimsPaid =>
              \E c \in DOMAIN claims :
                 /\ Processes(c)
                 /\ totalClaimsPaid' - totalClaimsPaid = claims'[c].payoutAmount
                 /\ sent' = Transfer(PolicyOf(c).policyholder, claims'[c].payoutAmount)
                 /\ \A d \in DOMAIN claims \ {c} : claims'[d] = claims[d]
      ]_vars

(* a paid claim exists while another claim of the same policy was denied  *)
C1_Witness ==
    \E c, d \in DOMAIN claims :
       /\ claims[c].processed /\ claims[c].payoutAmount > 0
       /\ claims[d].processed /\ claims[d].payoutAmount = 0
       /\ ~paused

(* C2: processClaim on an unprocessed claim of an Active policy with a    *)
(* verified reading that meets the trigger, with treasuryBalance >=       *)
(* coverageAmount, succeeds (when the holder accepts the transfer and the *)
(* contract is not paused); it transfers exactly coverageAmount to the    *)
(* policyholder, sets the policy ClaimPaid, lowers treasuryBalance and    *)
(* raises totalClaimsPaid by coverageAmount, and leaves the claim         *)
(* processed with payoutAmount = coverageAmount and actualValue = the     *)
(* relevant field of the reading.                                         *)
C2_PayoutWhenMet ==
    [][ \A c \in DOMAIN claims :
           /\ ( /\ ~claims[c].processed
                /\ PolicyOf(c).status = Active
                /\ ReadingOf(c).isVerified
                /\ RuleMet(c)
                /\ treasuryBalance >= PolicyOf(c).coverageAmount
                /\ ~paused )
              => processClaimError(c, TRUE) = "ok"
           /\ (Processes(c) /\ RuleMet(c)
                            /\ treasuryBalance >= PolicyOf(c).coverageAmount) =>
                 /\ sent' = Transfer(PolicyOf(c).policyholder, PolicyOf(c).coverageAmount)
                 /\ policies'[claims[c].policyId].status = ClaimPaid
                 /\ treasuryBalance' = treasuryBalance - PolicyOf(c).coverageAmount
                 /\ totalClaimsPaid' = totalClaimsPaid + PolicyOf(c).coverageAmount
                 /\ claims'[c].payoutAmount = PolicyOf(c).coverageAmount
                 /\ claims'[c].actualValue =
                       RelevantField(PolicyOf(c).triggerType, ReadingOf(c))
      ]_vars

(* C3: processClaim on a claim whose verified reading does not meet the   *)
(* trigger leaves the claim processed with payoutAmount 0, transfers      *)
(* nothing, leaves treasuryBalance, totalClaimsPaid and the policy (still *)
(* Active) unchanged, and afterwards the policyholder's initiateClaim on  *)
(* the same policy is accepted while now <= endTime.                      *)
C3_DeniedClaimKeepsPolicy ==
    [][ \A c \in DOMAIN claims :
           (Processes(c) /\ ~RuleMet(c)) =>
              /\ claims'[c].payoutAmount = 0
              /\ sent' = NoTransfer
              /\ treasuryBalance' = treasuryBalance
              /\ totalClaimsPaid' = totalClaimsPaid
              /\ balance' = balance
              /\ policies' = policies
              /\ PolicyOf(c).status = Active
              /\ (now' <= PolicyOf(c).endTime) =>
                    (initiateClaimError(PolicyOf(c).policyholder, claims[c].policyId))' = "ok"
      ]_vars

(* C4: trigger evaluation is the strict rule for all five trigger types   *)
(* and every signed threshold: a processed claim is paid exactly when the *)
(* relevant field of its reading is strictly below (Below types) or       *)
(* strictly above (Above types) the threshold, so a reading equal to the  *)
(* threshold is never paid.                                               *)
C4_StrictRule ==
    [][ \A c \in DOMAIN claims :
           Processes(c) => (claims'[c].payoutAmount > 0 <=> RuleMet(c)) ]_vars

(* the same rule for the readings whose unsigned fields fit the signed    *)
(* range, where the cast to int256 keeps the value                        *)
C4_StrictRuleInSignedRange ==
    [][ \A c \in DOMAIN claims :
           (Processes(c) /\ ReadingOf(c).rainfall <= IntMax
                         /\ ReadingOf(c).windSpeed <= IntMax)
              => (claims'[c].payoutAmount > 0 <=> RuleMet(c)) ]_vars

(* C5: processClaim of a claim whose request is unknown or unverified is  *)
(* rejected (weather data not ready, for an unprocessed claim of an       *)
(* Active policy while not paused), and every step that processes a claim *)
(* or pays out starts from a state in which that claim's request exists   *)
(* and is verified.                                                       *)
C5_NoPayoutWithoutFulfilment ==
    [][ /\ \A c \in ClaimIds, accept \in BOOLEAN :
              ~(ReadingOf(c).locationHash # ZeroHash /\ ReadingOf(c).isVerified) =>
                 /\ processClaimError(c, accept) # "ok"
                 /\ (~paused /\ ~getClaim(c).processed /\ PolicyOf(c).status = Active)
                       => processClaimError(c, accept) = "WS: weather data not ready"
        /\ \A c \in DOMAIN claims :
              Processes(c) =>
                 /\ ReadingOf(c).isVerified
                 /\ ReadingOf(c).locationHash # ZeroHash
                 /\ ReadingOf(c) \in
                       { [timestamp |-> claims[c].timestamp, temperature |-> r.temperature,
                          rainfall |-> r.rainfall, humidity |-> r.humidity,
                          windSpeed |-> r.windSpeed,
                          locationHash |-> PolicyOf(c).locationHash,
                          isVerified |-> TRUE] : r \in Readings }
        /\ totalClaimsPaid' # totalClaimsPaid =>
              \E c \in DOMAIN claims : Processes(c) /\ ReadingOf(c).isVerified
      ]_vars

(* a claim was paid on a fulfilled request while another claim of the     *)
(* policy holder still waits for its reading                              *)
C5_Witness ==
    \E c, d \in DOMAIN claims :
       /\ claims[c].processed /\ claims[c].payoutAmount > 0
       /\ ReadingOf(c).isVerified
       /\ ~claims[d].processed /\ ~ReadingOf(d).isVerified

(* C6: once a request is verified, no step changes its stored record and  *)
(* every fulfilment of it is rejected: as already fulfilled for a sender  *)
(* the connector accepts, as not authorized for any other.                *)
C6_FulfilledIsTerminal ==
    [][ \A id \in DOMAIN weatherDataStorage :
           weatherDataStorage[id].isVerified =>
              /\ id \in DOMAIN weatherDataStorage'
              /\ weatherDataStorage'[id] = weatherDataStorage[id]
              /\ \A a \in Accounts :
                    fulfillError(a, id) =
                       IF onlyAuthorizedProvider(a) THEN "FDC: already fulfilled"
                       ELSE "FDC: not authorized provider"
              /\ \A a \in Accounts : submitToFDCError(a, id) # "ok"
      ]_vars

(* two requests of one location, the older verified with a reading that   *)
(* differs from the placeholder, the newer still pending                  *)
C6_Witness ==
    \E id, other \in DOMAIN weatherDataStorage :
       /\ weatherDataStorage[id].isVerified
       /\ weatherDataStorage[id].rainfall > 0
       /\ ~weatherDataStorage[other].isVerified
       /\ weatherDataStorage[other].locationHash = weatherDataStorage[id].locationHash

(* C7 as stated: a sender that is not on the provider allow-list is       *)
(* rejected as not authorized, for every request.                         *)
C7_OnlyAllowListed ==
    \A a \in Accounts, id \in RequestIds :
       ~authorizedProviders[a] => fulfillError(a, id) = "FDC: not authorized provider"

(* C7 amended: fulfilment is rejected as not authorized for every sender  *)
(* that is neither on the allow-list nor the connector's current owner,   *)
(* directly or through the oracle contract; a provider other than the     *)
(* owner is rejected from the step that revokes it.                       *)
C7_OnlyAllowListedOrOwner ==
    [][ /\ \A a \in Accounts, id \in RequestIds :
              ~(authorizedProviders[a] \/ a = fdcOwner) =>
                 fulfillError(a, id) = "FDC: not authorized provider"
        /\ \A id \in RequestIds :
              ~(authorizedProviders[OracleAddr] \/ OracleAddr = fdcOwner) =>
                 submitToFDCError(Owner, id) = "FDC: not authorized provider"
        /\ \A a \in Accounts :
              (authorizedProviders[a] /\ ~authorizedProviders'[a] /\ a # fdcOwner') =>
                 \A id \in DOMAIN weatherDataStorage' :
                    (fulfillError(a, id))' = "FDC: not authorized provider"
      ]_vars

(* the first owner has revoked itself and handed the connector to an      *)
(* account that was never put on the allow-list: the old owner is now     *)
(* rejected, the new owner is accepted                                    *)
C7_Witness ==
    \E id \in DOMAIN weatherDataStorage :
       /\ ~authorizedProviders[Owner] /\ fdcOwner # Owner
       /\ ~authorizedProviders[fdcOwner]
       /\ fulfillError(Owner, id) = "FDC: not authorized provider"
       /\ fulfillError(fdcOwner, id) = "ok"

(* this step is a fulfilment of request id that did not revert *)
Fulfils(id) == ~weatherDataStorage[id].isVerified /\ weatherDataStorage'[id].isVerified

(* C8 as stated: a successful fulfilment sets the request verified, makes *)
(* it the latest of its location, appends a reading to the location's     *)
(* history and raises the count of the location's averages by one.        *)
C8_FulfilRecordsHistory ==
    [][ \A id \in DOMAIN weatherDataStorage :
           Fulfils(id) =>
              LET loc == weatherDataStorage[id].locationHash
              IN  /\ loc \in DOMAIN latestRequestByLocation'
                  /\ latestRequestByLocation'[loc] = id
                  /\ Len(locationHistory'[loc]) = Len(locationHistory[loc]) + 1
                  /\ locationAverages'[loc].dataPoints =
                        locationAverages[loc].dataPoints + 1
      ]_vars

(* C8 amended: a successful fulfilment sets the request verified, stores  *)
(* the four submitted values (keeping timestamp and location), makes the  *)
(* request the latest of its location and changes no other request, and   *)
(* leaves the history and the averages of every location unchanged; these *)
(* change only in a step of the oracle's own recordWeatherData, which     *)
(* fulfils nothing, appends one reading to one location and raises that   *)
(* location's count by one.                                               *)
C8_FulfilStoresReading ==
    [][ /\ \A id \in DOMAIN weatherDataStorage :
              Fulfils(id) =>
                 LET loc == weatherDataStorage[id].locationHash
                 IN  /\ \E r \in Readings :
                           weatherDataStorage'[id] =
                              [timestamp |-> weatherDataStorage[id].timestamp,
                               temperature |-> r.temperature, rainfall |-> r.rainfall,
                               humidity |-> r.humidity, windSpeed |-> r.windSpeed,
                               locationHash |-> loc, isVerified |-> TRUE]
                     /\ loc \in DOMAIN latestRequestByLocation'
                     /\ latestRequestByLocation'[loc] = id
                     /\ \A other \in DOMAIN weatherDataStorage \ {id} :
                           weatherDataStorage'[other] = weatherDataStorage[other]
                     /\ locationHistory' = locationHistory
                     /\ locationAverages' = locationAverages
        /\ <<locationHistory, locationAverages>>' # <<locationHistory, locationAverages>> =>
              /\ UNCHANGED <<weatherDataStorage, latestRequestByLocation>>
              /\ \E loc \in LocationHashes :
                    /\ Len(locationHistory'[loc]) = Len(locationHistory[loc]) + 1
                    /\ SubSeq(locationHistory'[loc], 1, Len(locationHistory[loc]))
                          = locationHistory[loc]
                    /\ locationAverages'[loc].dataPoints =
                          locationAverages[loc].dataPoints + 1
                    /\ \A l \in LocationHashes \ {loc} :
                          /\ locationHistory'[l] = locationHistory[l]
                          /\ locationAverages'[l] = locationAverages[l]
      ]_vars

(* a request fulfilled through the oracle contract is the latest of its   *)
(* location while the oracle holds no history for that location           *)
C8_Witness ==
    \E id \in DOMAIN weatherDataStorage :
       /\ weatherDataStorage[id].isVerified
       /\ weatherDataStorage[id].locationHash \in LocationHashes
       /\ weatherDataStorage[id].locationHash \in DOMAIN latestRequestByLocation
       /\ latestRequestByLocation[weatherDataStorage[id].locationHash] = id
       /\ locationHistory[weatherDataStorage[id].locationHash] = <<>>
       /\ locationAverages[weatherDataStorage[id].locationHash].dataPoints = 0
       /\ authorizedProviders[OracleAddr] /\ ~authorizedProviders[fdcOwner]
       /\ fdcOwner # Owner

(* this step is a cancelPolicy of policy p that did not revert *)
Cancels(p) == policies[p].status = Active /\ policies'[p].status = Cancelled

(* refund = p - floor(p/10), p = floor(premium*(total-elapsed)/total) *)
RefundRule(policy, t) ==
    LET total == policy.endTime - policy.startTime
        elapsed == t - policy.startTime
        p == (policy.premium * (total - elapsed)) \div total
    IN  p - (p \div 10)

(* C9: every cancelPolicy that goes through is a call at now < endTime on *)
(* an Active policy; it transfers RefundRule to the policyholder, lowers  *)
(* treasuryBalance (and the value held) by exactly that amount and sets   *)
(* the policy Cancelled; at elapsed = 0 the refund is premium -           *)
(* floor(premium/10); the refund never exceeds the stored premium.        *)
C9_CancellationRefund ==
    [][ \A p \in DOMAIN policies :
           Cancels(p) =>
              /\ now < policies[p].endTime /\ now >= policies[p].startTime
              /\ sent' = Transfer(policies[p].policyholder, RefundRule(policies[p], now))
              /\ treasuryBalance' = treasuryBalance - RefundRule(policies[p], now)
              /\ balance' = balance - RefundRule(policies[p], now)
              /\ RefundRule(policies[p], now) <= policies[p].premium
              /\ RefundRule(policies[p], now) >= 0
              /\ now = policies[p].startTime =>
                    RefundRule(policies[p], now) =
                       policies[p].premium - (policies[p].premium \div 10)
      ]_vars

(* a policy bought above the minimum premium was cancelled after part of  *)
(* its duration: the refund is below nine tenths of the premium           *)
C9_Witness ==
    \E p \in DOMAIN policies :
       /\ policies[p].status = Cancelled
       /\ policies[p].premium > MinimumPremium
       /\ now > policies[p].startTime
       /\ sent = Transfer(policies[p].policyholder, RefundRule(policies[p], now))
       /\ sent.amount < policies[p].premium - (policies[p].premium \div 10)
       /\ sent.amount > 0

(* C10: a policy record changes only in its status, and only from Active  *)
(* to Cancelled (by a cancellation that refunds the holder) or to         *)
(* ClaimPaid (by the processing of one of its claims); once Cancelled or  *)
(* ClaimPaid, cancelPolicy, initiateClaim and processClaim on it are      *)
(* rejected for every caller, with policy not active when the caller is   *)
(* the holder, the contract is not paused and the claim is unprocessed.   *)
C10_PolicyLifecycle ==
    [][ \A p \in DOMAIN policies :
           /\ p \in DOMAIN policies'
           /\ [policies'[p] EXCEPT !.status = policies[p].status] = policies[p]
           /\ policies'[p].status # policies[p].status =>
                 /\ policies[p].status = Active
                 /\ \/ /\ policies'[p].status = Cancelled
                       /\ sent' = Transfer(policies[p].policyholder,
                                           refundAmount(policies[p], now))
                    \/ /\ policies'[p].status = ClaimPaid
                       /\ \E c \in DOMAIN claims :
                             claims[c].policyId = p /\ Processes(c)
           /\ policies[p].status \in {Cancelled, ClaimPaid} =>
                 /\ \A a \in Accounts, accept \in BOOLEAN :
                       cancelPolicyError(a, p, accept) =
                          IF a = policies[p].policyholder THEN "WS: policy not active"
                          ELSE "WS: not policyholder"
                 /\ \A a \in Accounts :
                       initiateClaimError(a, p) =
                          IF paused THEN "EnforcedPause"
                          ELSE IF a = policies[p].policyholder THEN "WS: policy not active"
                          ELSE "WS: not policyholder"
                 /\ \A c \in DOMAIN claims, accept \in BOOLEAN :
                       claims[c].policyId = p =>
                          processClaimError(c, accept) =
                             IF paused THEN "EnforcedPause"
                             ELSE IF claims[c].processed THEN "WS: claim already processed"
                             ELSE "WS: policy not active"
      ]_vars

(* a cancelled policy with a claim still unprocessed, bought before the   *)
(* owner changed the rate, both limits and the treasury address           *)
C10_Witness ==
    \E p \in DOMAIN policies, c \in DOMAIN claims :
       /\ policies[p].status = Cancelled
       /\ claims[c].policyId = p /\ ~claims[c].processed
       /\ ReadingOf(c).isVerified
       /\ policies[p].endTime - policies[p].startTime > maxPolicyDuration
       /\ policies[p].coverageAmount < minCoverageAmount
       /\ basePremiumRate # DefaultBasePremiumRate
       /\ treasury # TreasuryAddr
       /\ ~paused

(* ----------------------------------------------------------------------- *)
(* the step is a successful createPolicy *)
Creates == policyCounter' # policyCounter

(* an argument list that violates one of the conditions of createPolicy *)
InvalidCreate(locationHash, triggerType, coverageAmount, duration, cropType, farmSize, value) ==
    \/ locationHash = ZeroHash
    \/ coverageAmount < minCoverageAmount
    \/ coverageAmount > maxCoverageAmount
    \/ duration < minPolicyDuration
    \/ duration > maxPolicyDuration
    \/ cropType = ""
    \/ farmSize = 0
    \/ value < calculatePremium(coverageAmount, duration, triggerType)

(* C11: createPolicy is rejected whenever the location is zero, the coverage
   or the duration lies outside its limits, the crop type is empty, the farm
   size is zero or the value paid is below calculatePremium; a coverage or a
   duration equal to its minimum or its maximum is accepted; and a step
   creates a policy only from arguments inside the limits, so the policy
   counter, the stored policies, the holder lists, treasuryBalance and
   totalPremiumsCollected change only then *)
C11_InvalidCreateRejected ==
    [][ /\ \A farm \in CreateFarms, triggerType \in CreateTypes,
              coverageAmount \in CreateCoverages, duration \in CreateDurations :
              \A value \in CreateValues(coverageAmount, duration, triggerType) :
                 LET err == createPolicyError("farmer1", farm.locationHash, triggerType,
                                5, coverageAmount, duration, farm.cropType,
                                farm.farmSize, value, TRUE)
                     invalid == InvalidCreate(farm.locationHash, triggerType,
                                   coverageAmount, duration, farm.cropType,
                                   farm.farmSize, value)
                 IN  /\ invalid => err # "ok"
                     /\ (~invalid /\ ~paused) => err = "ok"
        /\ Creates =>
              LET policy == policies'[policyCounter']
                  duration == policy.endTime - policy.startTime
              IN  /\ policy.locationHash # ZeroHash
                  /\ policy.coverageAmount >= minCoverageAmount
                  /\ policy.coverageAmount <= maxCoverageAmount
                  /\ duration >= minPolicyDuration
                  /\ duration <= maxPolicyDuration
                  /\ policy.cropType # ""
                  /\ policy.farmSize > 0
                  /\ policy.premium >=
                        calculatePremium(policy.coverageAmount, duration, policy.triggerType)
        /\ ~Creates =>
              UNCHANGED <<policies, holderPolicies, policyCounter,
                          treasuryBalance, totalPremiumsCollected>>
      ]_vars

(* a policy whose coverage and duration both sit on a limit that the owner
   has moved, created while the other limit of each would reject it *)
C11_Witness ==
    \E p \in DOMAIN policies :
       /\ policies[p].coverageAmount = maxCoverageAmount
       /\ policies[p].endTime - policies[p].startTime = minPolicyDuration
       /\ maxCoverageAmount # DefaultMaxCoverage
       /\ minPolicyDuration # DefaultMinDuration
       /\ createPolicyError("farmer1", 1, RainfallBelow, 5, maxCoverageAmount + 1,
                            minPolicyDuration, "Corn", 500, Ether, TRUE)
             = "WS: coverage too high"
       /\ createPolicyError("farmer1", 1, RainfallBelow, 5, maxCoverageAmount,
                            minPolicyDuration - 1, "Corn", 500, Ether, TRUE)
             = "WS: duration too short"

(* ----------------------------------------------------------------------- *)
(* C12: a createPolicy that goes through takes the next policy id, stores the
   policy as Active with the caller as holder, startTime = now, endTime =
   now + duration and premium = calculatePremium under the current rate,
   appends the id to the holder's list, raises treasuryBalance,
   totalPremiumsCollected and the value the contract holds by exactly the
   premium, and sends any value above the premium back to the caller *)
C12_CreateStoresPolicy ==
    [][ Creates =>
          LET policyId == policyCounter'
              policy == policies'[policyId]
              duration == policy.endTime - policy.startTime
              premium == calculatePremium(policy.coverageAmount, duration,
                                          policy.triggerType)
          IN  /\ policyId = policyCounter + 1
              /\ policyId \notin DOMAIN policies
              /\ policy.policyId = policyId
              /\ policy.status = Active
              /\ policy.policyholder \in Farmers
              /\ policy.startTime = now
              /\ duration \in CreateDurations
              /\ policy.coverageAmount \in CreateCoverages
              /\ policy.premium = premium
              /\ holderPolicies' = [holderPolicies EXCEPT
                                      ![policy.policyholder] = Append(@, policyId)]
              /\ \A p \in DOMAIN policies : policies'[p] = policies[p]
              /\ treasuryBalance' = treasuryBalance + premium
              /\ totalPremiumsCollected' = totalPremiumsCollected + premium
              /\ balance' = balance + premium
              /\ sent' \in {NoTransfer, Transfer(policy.policyholder, Overpayment)}
      ]_vars

(* an overpaid policy created under a rate the owner has raised, whose
   premium is above the minimum premium and whose excess went back *)
C12_Witness ==
    \E p \in DOMAIN policies :
       /\ basePremiumRate = 2 * DefaultBasePremiumRate
       /\ policies[p].premium > MinimumPremium
       /\ policies[p].premium =
             premiumAtRate(2 * DefaultBasePremiumRate, policies[p].coverageAmount,
                           policies[p].endTime - policies[p].startTime,
                           policies[p].triggerType)
       /\ policies[p].startTime > 0
       /\ treasuryBalance = policies[p].premium
       /\ sent = Transfer(policies[p].policyholder, Overpayment)

(* ----------------------------------------------------------------------- *)
(* the step is a successful initiateClaim *)
Initiates == claimCounter' # claimCounter

(* C13: initiateClaim goes through exactly when (the contract not being
   paused) the caller is the policyholder, the policy is Active and
   startTime <= now <= endTime, so it goes through at now = endTime and
   reports an expired policy only when now > endTime; a call that goes
   through opens exactly one new request for the location of the policy and
   stores an unprocessed claim with payoutAmount 0 that is linked to it; no
   other step adds a claim or a request *)
C13_InitiateClaimWindow ==
    [][ /\ \A caller \in Accounts, policyId \in PolicyIds :
              LET policy == getPolicy(policyId)
                  err == initiateClaimError(caller, policyId)
              IN  /\ err = "ok" <=>
                        /\ ~paused
                        /\ policy.policyholder = caller
                        /\ policy.status = Active
                        /\ policy.startTime <= now
                        /\ now <= policy.endTime
                  /\ err = "WS: policy expired" => now > policy.endTime
        /\ Initiates =>
              LET claimId == claimCounter'
                  claim == claims'[claimId]
                  policy == getPolicy(claim.policyId)
                  requestId == claim.weatherDataRequestId
              IN  /\ claimId = claimCounter + 1
                  /\ ~paused
                  /\ policy.status = Active
                  /\ policy.startTime <= now
                  /\ now <= policy.endTime
                  /\ claim.claimId = claimId
                  /\ claim.processed = FALSE
                  /\ claim.payoutAmount = 0
                  /\ claim.timestamp = now
                  /\ \A c \in DOMAIN claims : claims'[c] = claims[c]
                  /\ policyClaims'[claim.policyId][Len(policyClaims'[claim.policyId])]
                        = claimId
                  /\ requestCounter' = requestCounter + 1
                  /\ requestId \notin DOMAIN weatherDataStorage
                  /\ DOMAIN weatherDataStorage' =
                        DOMAIN weatherDataStorage \cup {requestId}
                  /\ weatherDataStorage'[requestId].locationHash = policy.locationHash
                  /\ weatherDataStorage'[requestId].isVerified = FALSE
                  /\ \A r \in DOMAIN weatherDataStorage :
                        weatherDataStorage'[r] = weatherDataStorage[r]
                  /\ UNCHANGED <<policies, moneyVars>>
        /\ ~Initiates =>
              /\ DOMAIN claims' = DOMAIN claims
              /\ requestCounter' = requestCounter
              /\ DOMAIN weatherDataStorage' = DOMAIN weatherDataStorage
      ]_vars

(* a claim opened at the very end time of its policy, which one day later
   would be refused as expired *)
C13_Witness ==
    \E c \in DOMAIN claims :
       /\ claims[c].timestamp = getPolicy(claims[c].policyId).endTime
       /\ claims[c].weatherDataRequestId \in DOMAIN weatherDataStorage
       /\ now > getPolicy(claims[c].policyId).endTime
       /\ ~paused
       /\ getPolicy(claims[c].policyId).status = Active
       /\ initiateClaimError(getPolicy(claims[c].policyId).policyholder,
                             claims[c].policyId) = "WS: policy expired"

(* ----------------------------------------------------------------------- *)
(* the step is a processClaim that pays claim c *)
Pays(c) == Processes(c) /\ claims'[c].payoutAmount > 0

(* C14: when the recipient rejects the value transfer of a refund
   (cancelPolicy, overpaid createPolicy) or of a payout (processClaim), the
   call fails as a whole: no step cancels a policy, pays a claim or creates
   an overpaid policy without the value having moved to the recipient *)
C14_RejectedTransferAborts ==
    [][ /\ \A caller \in Farmers, policyId \in PolicyIds :
              /\ cancelPolicyError(caller, policyId, FALSE) # "ok"
              /\ cancelPolicyError(caller, policyId, TRUE) = "ok"
                    => cancelPolicyError(caller, policyId, FALSE) = "WS: refund failed"
        /\ \A claimId \in ClaimIds :
              (/\ processClaimError(claimId, TRUE) = "ok"
               /\ evaluateTrigger(PolicyOf(claimId), ReadingOf(claimId)))
                 => processClaimError(claimId, FALSE) = "WS: payout failed"
        /\ \A caller \in Farmers, triggerType \in TypeInputs, value \in ValueInputs :
              (/\ createPolicyError(caller, 1, triggerType, 5, Ether,
                                    DefaultMinDuration, "Corn", 500, value, TRUE) = "ok"
               /\ value > calculatePremium(Ether, DefaultMinDuration, triggerType))
                 => createPolicyError(caller, 1, triggerType, 5, Ether,
                                      DefaultMinDuration, "Corn", 500, value, FALSE)
                      = "WS: refund failed"
        /\ \A p \in DOMAIN policies :
              Cancels(p) =>
                 /\ sent' = Transfer(policies[p].policyholder,
                                     refundAmount(policies[p], now))
                 /\ balance' = balance - refundAmount(policies[p], now)
        /\ \A c \in DOMAIN claims :
              Pays(c) =>
                 /\ sent' = Transfer(PolicyOf(c).policyholder, PolicyOf(c).coverageAmount)
                 /\ balance' = balance - PolicyOf(c).coverageAmount
        /\ Creates =>
              /\ balance' = balance + policies'[policyCounter'].premium
              /\ sent'.amount > 0 => sent'.to = policies'[policyCounter'].policyholder
        /\ sent' = NoTransfer => balance' >= balance
      ]_vars

(* an Active policy with a payable claim: with a rejecting policyholder the
   cancellation fails on its refund and the processing fails on its payout,
   with an accepting one both would go through *)
C14_Witness ==
    \E c \in DOMAIN claims :
       /\ cancelPolicyError(PolicyOf(c).policyholder, claims[c].policyId, FALSE)
             = "WS: refund failed"
       /\ cancelPolicyError(PolicyOf(c).policyholder, claims[c].policyId, TRUE) = "ok"
       /\ processClaimError(c, FALSE) = "WS: payout failed"
       /\ processClaimError(c, TRUE) = "ok"

(* ----------------------------------------------------------------------- *)
(* the claim is unprocessed on an Active policy and its verified reading
   meets the trigger rule *)
Payable(c) ==
    /\ ~claims[c].processed
    /\ PolicyOf(c).status = Active
    /\ ReadingOf(c).isVerified
    /\ RuleMet(c)

(* C15: while the trigger is met and treasuryBalance < coverageAmount,
   processClaim fails with "insufficient treasury" (when the contract is not
   paused) and no step processes the claim or changes its policy; once a
   step has raised treasuryBalance to the coverage, processClaim of the same
   claim is accepted and pays the full coverage *)
C15_InsufficientTreasuryFails ==
    [][ \A c \in DOMAIN claims :
           (Payable(c) /\ treasuryBalance < PolicyOf(c).coverageAmount) =>
              /\ ~paused => \A accept \in BOOLEAN :
                    processClaimError(c, accept) = "WS: insufficient treasury"
              /\ ~Processes(c)
              /\ claims'[c] = claims[c]
              /\ policies'[claims[c].policyId].status # ClaimPaid
              /\ totalClaimsPaid' = totalClaimsPaid
              /\ (/\ treasuryBalance' >= PolicyOf(c).coverageAmount
                  /\ policies'[claims[c].policyId] = policies[claims[c].policyId]
                  /\ ~paused')
                   => /\ (processClaimError(c, TRUE))' = "ok"
                      /\ (evaluateTrigger(PolicyOf(c), ReadingOf(c)))'
      ]_vars

(* ----------------------------------------------------------------------- *)
(* C16: identifiers are never reused: each new policy id, claim id and
   request id differs from every earlier one of its kind (also for two
   requests with the same location and timestamp at the same block time),
   no record is ever removed, and a step that adds a policy, a claim or a
   request leaves every existing record of that kind as it was *)
C16_IdsNeverReused ==
    [][ /\ DOMAIN policies = 1..policyCounter
        /\ DOMAIN claims = 1..claimCounter
        /\ Cardinality(DOMAIN weatherDataStorage) = requestCounter
        /\ \A c, d \in DOMAIN claims :
              c # d => claims[c].weatherDataRequestId # claims[d].weatherDataRequestId
        /\ DOMAIN policies \subseteq DOMAIN policies'
        /\ DOMAIN claims \subseteq DOMAIN claims'
        /\ DOMAIN weatherDataStorage \subseteq DOMAIN weatherDataStorage'
        /\ Creates =>
              /\ policyCounter' \notin DOMAIN policies
              /\ DOMAIN policies' = DOMAIN policies \cup {policyCounter'}
              /\ \A p \in DOMAIN policies : policies'[p] = policies[p]
        /\ Initiates =>
              /\ claimCounter' \notin DOMAIN claims
              /\ DOMAIN claims' = DOMAIN claims \cup {claimCounter'}
              /\ \A c \in DOMAIN claims : claims'[c] = claims[c]
        /\ requestCounter' # requestCounter =>
              /\ Cardinality(DOMAIN weatherDataStorage' \ DOMAIN weatherDataStorage) = 1
              /\ \A r \in DOMAIN weatherDataStorage :
                    weatherDataStorage'[r] = weatherDataStorage[r]
      ]_vars

(* two policies, two claims, and two requests for the same location and
   timestamp made at the same block time, the first of them fulfilled
   before the second was made *)
C16_Witness ==
    /\ policyCounter = 2
    /\ claimCounter = 2
    /\ \E r1, r2 \in DOMAIN weatherDataStorage :
          /\ r1 # r2
          /\ r1[1] = r2[1] /\ r1[2] = r2[2] /\ r1[4] = r2[4]
          /\ r1[3] < r2[3]
          /\ weatherDataStorage[r1].isVerified
          /\ ~weatherDataStorage[r2].isVerified

(* ----------------------------------------------------------------------- *)
(* the id the next request would get: one that has never been returned *)
NextRequestId(locationHash) == requestIdOf(locationHash, now, requestCounter + 1, now)

(* C17: isDataAvailable reports available = true for every id that
   requestWeatherData has returned, whatever location was passed to it, and
   available = false for an id never returned; verified is the fulfilment
   flag of the request; and a request that has been returned and is not
   verified is accepted for fulfilment from an authorized provider *)
C17_AvailableIffRequested ==
    /\ \A requestId \in DOMAIN weatherDataStorage :
          /\ isDataAvailable(requestId).available
          /\ isDataAvailable(requestId).verified = weatherDataStorage[requestId].isVerified
          /\ ~isDataAvailable(requestId).verified
                => fulfillError(fdcOwner, requestId) = "ok"
    /\ \A locationHash \in {ZeroHash} \cup LocationHashes :
          /\ NextRequestId(locationHash) \notin DOMAIN weatherDataStorage
          /\ ~isDataAvailable(NextRequestId(locationHash)).available
          /\ ~isDataAvailable(NextRequestId(locationHash)).verified
    /\ ~isDataAvailable(ZeroId).available

(* the same statement for the requests made with a location other than zero *)
C17_AvailableIffRequestedNonZero ==
    /\ \A requestId \in DOMAIN weatherDataStorage :
          weatherDataStorage[requestId].locationHash # ZeroHash =>
             /\ isDataAvailable(requestId).available
             /\ isDataAvailable(requestId).verified
                   = weatherDataStorage[requestId].isVerified
             /\ ~isDataAvailable(requestId).verified
                   => fulfillError(fdcOwner, requestId) = "ok"
    /\ \A locationHash \in {ZeroHash} \cup LocationHashes :
          /\ NextRequestId(locationHash) \notin DOMAIN weatherDataStorage
          /\ ~isDataAvailable(NextRequestId(locationHash)).available
          /\ ~isDataAvailable(NextRequestId(locationHash)).verified
    /\ ~isDataAvailable(ZeroId).available

(* ----------------------------------------------------------------------- *)
(* the premium as the specification states it, in the units of the model
   (durations in days, hence a year of DaysPerYear days) *)
Max(a, b) == IF a >= b THEN a ELSE b
SpecifiedMultiplier(triggerType) ==
    CASE triggerType = RainfallBelow -> 120
      [] triggerType = RainfallAbove -> 150
      [] triggerType = TemperatureBelow -> 110
      [] triggerType = TemperatureAbove -> 130
      [] triggerType = WindSpeedAbove -> 140
PremiumRule(rate, coverage, duration, triggerType) ==
    Max(MinimumPremium,
        (((((coverage * rate) \div 10000) * ((duration * 100) \div DaysPerYear))
             \div 100) * SpecifiedMultiplier(triggerType)) \div 100)

(* C18: under every base rate the owner has set, calculatePremium equals
   max(minimumPremium, floor(floor(floor(coverage*rate/10000) *
   floor(duration*100/year) / 100) * riskMultiplier / 100)) with the
   multipliers 120, 150, 110, 130, 140, so it is never below the minimum
   premium, and the premium stored by createPolicy is that number *)
C18_PremiumFormula ==
    [][ /\ \A coverage \in PremiumCoverages, duration \in PremiumDurations,
              triggerType \in TriggerTypes :
              /\ calculatePremium(coverage, duration, triggerType)
                    = PremiumRule(basePremiumRate, coverage, duration, triggerType)
              /\ calculatePremium(coverage, duration, triggerType) >= MinimumPremium
        /\ \A triggerType \in TriggerTypes :
              calculatePremium(DefaultMaxCoverage, DefaultMaxDuration, triggerType)
                 >= MinimumPremium
        /\ (Creates /\ policies'[policyCounter'].coverageAmount \in PremiumCoverages) =>
              LET policy == policies'[policyCounter']
              IN  policy.premium =
                     PremiumRule(basePremiumRate, policy.coverageAmount,
                                 policy.endTime - policy.startTime, policy.triggerType)
      ]_vars

(* a policy of 3 ether for a year created at the raised rate, with a premium
   above the minimum, in a state where a remainder is cut at each of the
   three divisions of another quote *)
C18_Witness ==
    /\ \E p \in DOMAIN policies :
          /\ policies[p].coverageAmount = 3 * Ether
          /\ policies[p].endTime - policies[p].startTime = DefaultMaxDuration
          /\ policies[p].premium > MinimumPremium
          /\ policies[p].premium =
                PremiumRule(2 * DefaultBasePremiumRate, 3 * Ether, DefaultMaxDuration,
                            policies[p].triggerType)
    /\ basePremiumRate = 2 * DefaultBasePremiumRate
    /\ (1234567 * basePremiumRate) % 10000 # 0
    /\ calculatePremium(1234567, 30, TemperatureBelow) = 10863
    /\ calculatePremium(12345, 7, TemperatureBelow) = MinimumPremium

(* ----------------------------------------------------------------------- *)
(* coverage and duration pass the limits of createPolicy *)
AcceptedTerms(coverage, duration) ==
    /\ coverage >= minCoverageAmount /\ coverage <= maxCoverageAmount
    /\ duration >= minPolicyDuration /\ duration <= maxPolicyDuration

(* C19 as stated: for every coverage and duration that createPolicy accepts,
   the flood premium is greater than the drought premium, which is greater
   than the frost premium *)
C19_StrictPremiumOrder ==
    \A coverage \in CreateCoverages \cup PremiumCoverages,
       duration \in CreateDurations \cup PremiumDurations :
       AcceptedTerms(coverage, duration) =>
          /\ calculatePremium(coverage, duration, RainfallAbove)
                > calculatePremium(coverage, duration, RainfallBelow)
          /\ calculatePremium(coverage, duration, RainfallBelow)
                > calculatePremium(coverage, duration, TemperatureBelow)

(* C19, amended: for equal coverage and duration the flood premium is at
   least the drought premium, which is at least the frost premium; each of
   the two is strictly greater whenever the smaller premium of the pair is
   above the minimum premium, and a pair can be equal only at the minimum
   premium *)
C19_PremiumOrderAboveMinimum ==
    \A coverage \in CreateCoverages \cup PremiumCoverages,
       duration \in CreateDurations \cup PremiumDurations :
       LET flood == calculatePremium(coverage, duration, RainfallAbove)
           drought == calculatePremium(coverage, duration, RainfallBelow)
           frost == calculatePremium(coverage, duration, TemperatureBelow)
       IN  /\ flood >= drought
           /\ drought >= frost
           /\ drought > MinimumPremium => flood > drought
           /\ frost > MinimumPremium => drought > frost
           /\ flood = drought => drought = MinimumPremium
           /\ drought = frost => frost = MinimumPremium

(* a flood policy was created at a premium above what drought and frost cost
   for the same terms, while the smallest accepted terms cost the minimum
   premium for all three types *)
C19_Witness ==
    /\ \E p \in DOMAIN policies :
          LET coverage == policies[p].coverageAmount
              duration == policies[p].endTime - policies[p].startTime
          IN  /\ policies[p].triggerType = RainfallAbove
              /\ policies[p].premium = calculatePremium(coverage, duration, RainfallAbove)
              /\ policies[p].premium > calculatePremium(coverage, duration, RainfallBelow)
              /\ calculatePremium(coverage, duration, RainfallBelow)
                    > calculatePremium(coverage, duration, TemperatureBelow)
              /\ calculatePremium(coverage, duration, TemperatureBelow) > MinimumPremium
    /\ AcceptedTerms(minCoverageAmount, minPolicyDuration)
    /\ calculatePremium(minCoverageAmount, minPolicyDuration, RainfallAbove)
          = MinimumPremium
    /\ calculatePremium(minCoverageAmount, minPolicyDuration, TemperatureBelow)
          = MinimumPremium

(* ----------------------------------------------------------------------- *)
(* the step records a reading for location l *)
Records(l) == Len(locationHistory'[l]) = Len(locationHistory[l]) + 1

(* division truncating toward zero *)
Trunc(x, m) == IF x >= 0 THEN x \div m ELSE -((-x) \div m)

(* the history of location l holds exactly the values a, b, c in this order *)
HistoryIs(l, a, b, c) ==
    /\ Len(locationHistory[l]) = 3
    /\ \A i \in 1..3 :
          LET v == <<a, b, c>>[i]
          IN  /\ locationHistory[l][i].temperature = v
              /\ locationHistory[l][i].rainfall = v
              /\ locationHistory[l][i].humidity = v
              /\ locationHistory[l][i].windSpeed = v

(* C20: per location, each recorded reading sets each of the four averages
   to trunc((avg*count + value)/(count+1)), the first reading to the value
   itself, and raises the count by exactly one, leaving the averages of the
   other locations alone; the count is the number of readings recorded; and
   after the readings 10, 20, 30 in this order each average is exactly 20
   and the count is 3 *)
C20_RunningAverages ==
    [][ /\ \A l \in LocationHashes :
              /\ locationAverages[l].dataPoints = Len(locationHistory[l])
              /\ HistoryIs(l, 10, 20, 30) =>
                    /\ locationAverages[l].avgTemperature = 20
                    /\ locationAverages[l].avgRainfall = 20
                    /\ locationAverages[l].avgHumidity = 20
                    /\ locationAverages[l].avgWindSpeed = 20
                    /\ locationAverages[l].dataPoints = 3
              /\ ~Records(l) => locationAverages'[l] = locationAverages[l]
              /\ Records(l) =>
                    LET old == locationAverages[l]
                        new == locationAverages'[l]
                        n == old.dataPoints
                        reading == locationHistory'[l][Len(locationHistory'[l])]
                    IN  /\ new.dataPoints = n + 1
                        /\ new.avgTemperature =
                              IF n = 0 THEN reading.temperature
                              ELSE Trunc(old.avgTemperature * n + reading.temperature, n + 1)
                        /\ new.avgRainfall =
                              IF n = 0 THEN reading.rainfall
                              ELSE Trunc(old.avgRainfall * n + reading.rainfall, n + 1)
                        /\ new.avgHumidity =
                              IF n = 0 THEN reading.humidity
                              ELSE Trunc(old.avgHumidity * n + reading.humidity, n + 1)
                        /\ new.avgWindSpeed =
                              IF n = 0 THEN reading.windSpeed
                              ELSE Trunc(old.avgWindSpeed * n + reading.windSpeed, n + 1)
      ]_vars

(* location 1 has the readings 10, 20, 30 with every average at 20 and the
   count at 3, while location 2 has one reading of its own *)
C20_Witness ==
    /\ HistoryIs(1, 10, 20, 30)
    /\ locationAverages[1].avgRainfall = 20
    /\ locationAverages[1].avgTemperature = 20
    /\ locationAverages[1].dataPoints = 3
    /\ locationAverages[2].dataPoints = 1
    /\ locationAverages[2].avgRainfall = 20

(* ----------------------------------------------------------------------- *)
Min(a, b) == IF a <= b THEN a ELSE b

(* the number of readings among the most recent sampleSize ones of the
   history that meet the strict trigger rule *)
RuleCount(history, sampleSize, triggerType, threshold) ==
    Cardinality({i \in (Len(history) - sampleSize + 1)..Len(history) :
                    TriggerRule(triggerType, threshold, history[i])})

(* the score as the specification states it *)
RiskRule(history, triggerType, threshold) ==
    IF Len(history) = 0 THEN 50
    ELSE (RuleCount(history, Min(100, Len(history)), triggerType, threshold) * 100)
            \div Min(100, Len(history))

(* C21: calculateRiskScore is 50 for a location without history and
   otherwise floor(triggerCount*100/sampleSize), sampleSize = min(100,
   length of the history), triggerCount the number of the most recent
   sampleSize readings that meet the strict trigger rule; it lies in 0..100 *)
C21_RiskScore ==
    \A locationHash \in LocationHashes, triggerType \in RiskTypes,
       threshold \in RiskThresholds :
       /\ calculateRiskScore(locationHash, triggerType, threshold)
             = RiskRule(locationHistory[locationHash], triggerType, threshold)
       /\ calculateRiskScore(locationHash, triggerType, threshold) \in 0..100

(* the same statement for the histories whose readings fit the signed range *)
C21_RiskScoreInSignedRange ==
    \A locationHash \in LocationHashes, triggerType \in RiskTypes,
       threshold \in RiskThresholds :
       (\A i \in 1..Len(locationHistory[locationHash]) :
           /\ locationHistory[locationHash][i].rainfall <= IntMax
           /\ locationHistory[locationHash][i].windSpeed <= IntMax)
         => /\ calculateRiskScore(locationHash, triggerType, threshold)
                  = RiskRule(locationHistory[locationHash], triggerType, threshold)
            /\ calculateRiskScore(locationHash, triggerType, threshold) \in 0..100

(* ----------------------------------------------------------------------- *)
(* a createPolicy call with arguments that pass every check of the function *)
ValidCreateError ==
    createPolicyError("farmer1", 1, RainfallBelow, 5, minCoverageAmount,
                      minPolicyDuration, "Corn", 500,
                      calculatePremium(minCoverageAmount, minPolicyDuration,
                                       RainfallBelow), TRUE)

(* processClaim of claim c meets every precondition other than the pause *)
Processable(c) ==
    /\ ~claims[c].processed
    /\ PolicyOf(c).status = Active
    /\ ReadingOf(c).isVerified
    /\ evaluateTrigger(PolicyOf(c), ReadingOf(c))
          => treasuryBalance >= PolicyOf(c).coverageAmount

(* initiateClaim by the holder meets every precondition other than the pause *)
Claimable(p) ==
    /\ policies[p].status = Active
    /\ policies[p].startTime <= now
    /\ now <= policies[p].endTime

(* C22: while the contract is paused, createPolicy, initiateClaim and
   processClaim fail for every caller and argument and no step creates a
   policy, opens a claim or processes one; in the state right after unpause
   each of them is accepted again under its other preconditions; pause and
   unpause are refused to every caller but the owner *)
C22_PausedBlocksOperations ==
    [][ /\ paused =>
              /\ ValidCreateError = "EnforcedPause"
              /\ \A caller \in Accounts, policyId \in PolicyIds :
                    initiateClaimError(caller, policyId) = "EnforcedPause"
              /\ \A claimId \in ClaimIds, accept \in BOOLEAN :
                    processClaimError(claimId, accept) = "EnforcedPause"
              /\ ~Creates
              /\ ~Initiates
              /\ \A c \in DOMAIN claims : claims'[c] = claims[c]
              /\ totalClaimsPaid' = totalClaimsPaid
              /\ totalPremiumsCollected' = totalPremiumsCollected
        /\ (paused /\ ~paused') =>
              /\ ValidCreateError' = "ok"
              /\ \A p \in DOMAIN policies :
                    Claimable(p) =>
                       (initiateClaimError(policies[p].policyholder, p))' = "ok"
              /\ \A c \in DOMAIN claims :
                    Processable(c) => (processClaimError(c, TRUE))' = "ok"
        /\ \A caller \in Accounts \ {Owner} :
              /\ pauseError(caller) # "ok"
              /\ unpauseError(caller) # "ok"
        /\ pauseError(Owner) = "ok" <=> ~paused
        /\ unpauseError(Owner) = "ok" <=> paused
        /\ paused' # paused => UNCHANGED <<policyVars, claimVars, moneyVars>>
      ]_vars

(* the contract is paused while a claim with a verified reading that meets
   the trigger and a funded treasury waits on an Active policy still in its
   window *)
C22_Witness ==
    /\ paused
    /\ \E c \in DOMAIN claims :
          /\ Processable(c)
          /\ evaluateTrigger(PolicyOf(c), ReadingOf(c))
          /\ Claimable(claims[c].policyId)
          /\ processClaimError(c, TRUE) = "EnforcedPause"
          /\ initiateClaimError(PolicyOf(c).policyholder, claims[c].policyId)
                = "EnforcedPause"

(* ----------------------------------------------------------------------- *)
(* C23: the administrative functions are owner-only: for a caller other than
   the owner, every call that would change basePremiumRate, the coverage or
   duration limits, the treasury address or the connector address, or that
   would withdraw from the treasury, is refused, and so is every change of
   the provider allow-list for a caller other than the owner of the
   connector; the owner's withdrawFromTreasury(amount) is accepted exactly
   when amount <= treasuryBalance (and the treasury address takes the
   transfer) and then pays exactly amount to the treasury address; and
   setBasePremiumRate accepts exactly the rates with 0 < rate <= 5000 *)
C23_OwnerOnlyAdministration ==
    [][ /\ \A caller \in Accounts \ {Owner} :
              /\ \A rate \in OwnerRates : setBasePremiumRateError(caller, rate) # "ok"
              /\ \A limits \in CoverageLimitInputs \cup DurationLimitInputs :
                    setLimitsError(caller, limits[1], limits[2]) # "ok"
              /\ \A newTreasury \in TreasuryInputs :
                    setTreasuryError(caller, newTreasury) # "ok"
              /\ \A fdc \in ConnectorInputs :
                    setFlareDataConnectorError(caller, fdc) # "ok"
              /\ \A amount \in WithdrawInputs \cup {0}, accept \in BOOLEAN :
                    withdrawFromTreasuryError(caller, amount, accept) # "ok"
        /\ \A caller \in Accounts \ {fdcOwner}, provider \in Accounts :
              /\ authorizeError(caller, provider) # "ok"
              /\ revokeError(caller, provider) # "ok"
        /\ \A amount \in WithdrawInputs \cup {0}, accept \in BOOLEAN :
              withdrawFromTreasuryError(Owner, amount, accept) = "ok"
                 <=> (amount <= treasuryBalance /\ accept)
        /\ \A rate \in OwnerRates :
              setBasePremiumRateError(Owner, rate) = "ok" <=> (rate > 0 /\ rate <= 5000)
        /\ treasuryBalance' < treasuryBalance =>
              /\ sent' = Transfer(treasury, treasuryBalance - treasuryBalance')
              /\ balance' = balance - (treasuryBalance - treasuryBalance')
              /\ UNCHANGED <<policyVars, claimVars, configVars>>
        /\ basePremiumRate' > 0 /\ basePremiumRate' <= 5000
      ]_vars

(* the owner has moved the treasury address, the connector address and the
   rate to its upper limit, has authorized a provider, and has just
   withdrawn the whole treasury to the new treasury address *)
C23_Witness ==
    /\ treasury # TreasuryAddr
    /\ flareDataConnector = OtherFdcAddr
    /\ basePremiumRate = MaxBasePremiumRate
    /\ authorizedProviders[Provider]
    /\ sent.to = treasury
    /\ sent.amount > 0
    /\ treasuryBalance = 0
    /\ totalPremiumsCollected > 0

(* ----------------------------------------------------------------------- *)
(* C24: while the contract is inside an external value transfer (the refund
   of createPolicy, the refund of cancelPolicy, the payout of processClaim,
   the withdrawal of withdrawFromTreasury), the recipient's callback cannot
   successfully execute any state-changing function: until the transfer
   returns, no step changes the state of the insurance contract *)
C24_NoReentry ==
    [][ callStack # <<>> => UNCHANGED insVars ]_vars

(* the same for the callbacks that run while a nonReentrant function is
   waiting, and for the four nonReentrant functions only: the plain
   transfer to the contract remains possible there *)
C24_GuardedFunctionsRefused ==
    [][ reentrancyEntered => UNCHANGED <<policyVars, claimVars, configVars,
                                          totalPremiumsCollected, totalClaimsPaid>> ]_vars

(* ----------------------------------------------------------------------- *)
(* a run of the service's recordWeatherData / fulfillDataRequest in which the
   values came from the provider, and one in which they came from the
   fallback (no API key, or a failed request) *)
FromProvider(response) == response.ok
ServiceStepReal(response, draw) ==
    \/ \E l \in ServiceLocations : serviceRecordWeatherData(TRUE, response, draw, l)
    \/ \E id \in RequestIds : fulfillDataRequest(TRUE, response, draw, id)
ServiceStepFallback(apiKey, response, draw) ==
    \/ \E l \in ServiceLocations : serviceRecordWeatherData(apiKey, response, draw, l)
    \/ \E id \in RequestIds : fulfillDataRequest(apiKey, response, draw, id)

(* C25: when the provider fails or is unconfigured the service still submits
   a (synthetic) reading, and the stored data tells a synthetic reading from
   a real one: no step of the service is at once the step of a run whose
   values came from the provider and the step of a run whose values came
   from the fallback, i.e. the two runs never store the same records *)
C25_SyntheticDistinguishable ==
    [][ \A real \in ProviderResponses, failed \in ProviderResponses,
           apiKey \in BOOLEAN, draw \in MockDraws :
           (FromProvider(real) /\ (~apiKey \/ ~FromProvider(failed)))
              => ~(ServiceStepReal(real, draw) /\ ServiceStepFallback(apiKey, failed, draw))
      ]_vars

(* ----------------------------------------------------------------------- *)
(* C26: after any sequence of createPolicy, cancelPolicy, initiateClaim,
   processClaim, fundTreasury, plain transfers to the contract and
   withdrawFromTreasury, treasuryBalance equals the value the contract
   holds and is never negative; every step moves treasuryBalance and the
   held value by the same amount: up by the premium of a new policy or by
   the value funded or transferred in, down by the payout, refund or
   withdrawal that the step sends out *)
C26_TreasuryMatchesHeldValue ==
    [][ LET dT == treasuryBalance' - treasuryBalance
            dP == totalPremiumsCollected' - totalPremiumsCollected
            dC == totalClaimsPaid' - totalClaimsPaid
        IN  /\ treasuryBalance = balance
            /\ treasuryBalance >= 0
            /\ treasuryBalance' = balance'
            /\ treasuryBalance' >= 0
            /\ dP >= 0 /\ dC >= 0
            /\ dP > 0 => dC = 0 /\ dT = dP
            /\ dC > 0 => dP = 0 /\ dT = -dC /\ sent'.amount = dC
            /\ (dP = 0 /\ dC = 0 /\ dT < 0) => sent'.amount = -dT
            /\ (dP = 0 /\ dC = 0 /\ dT > 0) => sent' = NoTransfer
            /\ (dP = 0 /\ dT = 0) => sent'.amount = 0
      ]_vars

(* premiums were collected and a claim was paid out of a funded treasury,
   and value is still held *)
C26_Witness ==
    /\ totalPremiumsCollected > 0
    /\ totalClaimsPaid > 0
    /\ treasuryBalance = balance
    /\ treasuryBalance > 0
    /\ \E p \in DOMAIN policies : policies[p].status = ClaimPaid

(* ----------------------------------------------------------------------- *)
(* the claims of policy p that were paid *)
PaidClaims(p) ==
    {c \in DOMAIN claims : claims[c].policyId = p /\ claims[c].payoutAmount > 0}

(* C27: per policy, value leaves the treasury at most once, whatever the
   order of initiateClaim (several pending claims on one policy), fulfilment,
   processClaim and cancelPolicy: at most one claim of a policy is paid, the
   amount paid is the policy's coverageAmount and no more, a paid policy is
   ClaimPaid and a cancelled one has no paid claim, and a policy that has
   left Active (by the step that refunded or paid it) never changes again,
   so that no policy yields both a refund and a payout *)
C27_ValueLeavesOncePerPolicy ==
    [][ /\ \A p \in DOMAIN policies :
              /\ Cardinality(PaidClaims(p)) <= 1
              /\ \A c \in PaidClaims(p) :
                    /\ policies[p].status = ClaimPaid
                    /\ claims[c].payoutAmount <= policies[p].coverageAmount
              /\ policies[p].status = Cancelled => PaidClaims(p) = {}
              /\ policies[p].status # Active => policies'[p] = policies[p]
              /\ policies'[p].status # policies[p].status =>
                    /\ sent'.to = policies[p].policyholder
                    /\ treasuryBalance' = treasuryBalance - sent'.amount
                    /\ \/ /\ policies'[p].status = Cancelled
                          /\ UNCHANGED <<claims, totalClaimsPaid>>
                          /\ sent'.amount <= policies[p].premium
                       \/ /\ policies'[p].status = ClaimPaid
                          /\ sent'.amount = policies[p].coverageAmount
                          /\ totalClaimsPaid' = totalClaimsPaid + sent'.amount
                          /\ \E c \in DOMAIN claims : Pays(c) /\ claims[c].policyId = p
        /\ \A c \in DOMAIN claims :
              Pays(c) => /\ PolicyOf(c).status = Active
                         /\ policies'[claims[c].policyId].status = ClaimPaid
                         /\ \A d \in DOMAIN claims \ {c} : claims'[d] = claims[d]
        /\ totalClaimsPaid' # totalClaimsPaid => \E c \in DOMAIN claims : Pays(c)
      ]_vars

(* two claims were opened on one policy; one was paid and the other can no
   longer be processed *)
C27_Witness ==
    \E p \in DOMAIN policies, c \in DOMAIN claims, d \in DOMAIN claims :
       /\ c # d
       /\ claims[c].policyId = p /\ claims[d].policyId = p
       /\ claims[c].payoutAmount > 0
       /\ ~claims[d].processed
       /\ ReadingOf(d).isVerified
       /\ policies[p].status = ClaimPaid
       /\ processClaimError(d, TRUE) = "WS: policy not active"
       /\ cancelPolicyError(policies[p].policyholder, p, TRUE) = "WS: policy not active"

(* ----------------------------------------------------------------------- *)
(* C28: cancelPolicy fails only for the listed reasons: in every reachable
   state, the policyholder's call on an Active policy before its endTime,
   with a refund transfer that the holder accepts, goes through, whatever
   payouts, cancellations and withdrawals came before *)
C28_CancelAlwaysPossible ==
    \A p \in DOMAIN policies :
       (policies[p].status = Active /\ now < policies[p].endTime)
          => cancelPolicyError(policies[p].policyholder, p, TRUE) = "ok"

(* the same while the treasury still covers the refund *)
C28_CancelPossibleWhenCovered ==
    \A p \in DOMAIN policies :
       (/\ policies[p].status = Active
        /\ now < policies[p].endTime
        /\ treasuryBalance >= refundAmount(policies[p], now))
          => cancelPolicyError(policies[p].policyholder, p, TRUE) = "ok"

(* ----------------------------------------------------------------------- *)
(* C29: no policy ever has status Expired: the passing of time changes no
   policy, a policy leaves Active only by the step that cancels it or pays
   it, and a claim opened inside the window is still accepted by
   processClaim, and paid the full coverageAmount, after endTime *)
C29_NeverExpired ==
    [][ /\ \A p \in DOMAIN policies :
              /\ policies[p].status \in {Active, Cancelled, ClaimPaid}
              /\ policies'[p].status \in {Active, Cancelled, ClaimPaid}
              /\ (policies[p].status = Active /\ policies'[p].status # Active)
                    => /\ sent'.to = policies[p].policyholder
                       /\ now' = now
        /\ now' # now => UNCHANGED policies
        /\ \A c \in DOMAIN claims :
              /\ (Processable(c) /\ ~paused /\ now > PolicyOf(c).endTime)
                    => processClaimError(c, TRUE) = "ok"
              /\ Pays(c) => /\ sent'.amount = PolicyOf(c).coverageAmount
                             /\ claims[c].timestamp <= PolicyOf(c).endTime
      ]_vars

(* a claim opened inside the window has just been paid in full after the
   policy's end time *)
C29_Witness ==
    \E c \in DOMAIN claims :
       /\ now > PolicyOf(c).endTime
       /\ claims[c].timestamp <= PolicyOf(c).endTime
       /\ PolicyOf(c).status = ClaimPaid
       /\ claims[c].payoutAmount = PolicyOf(c).coverageAmount
       /\ sent = Transfer(PolicyOf(c).policyholder, PolicyOf(c).coverageAmount)

(* ----------------------------------------------------------------------- *)
(* C30: a policy bought through createPolicyFromTemplate belongs to the
   account that called the factory: the call is accepted with the premium or
   more (the overpayment is returned, the call does not fail), and after it
   the caller is the stored policyholder, who can cancel the policy and open
   a claim on it and to whom any overpayment was sent *)
C30_FactoryPolicyBelongsToCaller ==
    [][ \A caller \in Farmers, templateId \in 1..templateCount,
           baseCoverage \in FactoryCoverages, overpayment \in FactoryOverpayments :
           LET value == FactoryValue(templateId, baseCoverage, overpayment)
           IN /\ (~paused /\ policyCounter < MaxFactoryPolicies)
                    => createPolicyFromTemplateError(caller, templateId, 1, baseCoverage,
                                                     "Wheat", 300, value) = "ok"
              /\ createPolicyFromTemplate(caller, templateId, 1, baseCoverage,
                                          "Wheat", 300, value)
                    => /\ policies'[policyCounter'].policyholder = caller
                       /\ (cancelPolicyError(caller, policyCounter, TRUE))' = "ok"
                       /\ (initiateClaimError(caller, policyCounter))' = "ok"
                       /\ sent'.amount > 0 => sent'.to = caller
      ]_vars

(* what the code does: the factory is the policyholder of every policy
   bought through it, and no farmer can cancel it or open a claim on it *)
C30_FactoryHoldsPolicy ==
    [][ \A caller \in Farmers, templateId \in 1..templateCount,
           baseCoverage \in FactoryCoverages, overpayment \in FactoryOverpayments :
           LET value == FactoryValue(templateId, baseCoverage, overpayment)
           IN createPolicyFromTemplate(caller, templateId, 1, baseCoverage,
                                       "Wheat", 300, value)
                 => /\ policies'[policyCounter'].policyholder = FactoryAddr
                    /\ value = estimatePremium(templateId, baseCoverage)
                    /\ \A farmer \in Farmers :
                          /\ (cancelPolicyError(farmer, policyCounter, TRUE))'
                                = "WS: not policyholder"
                          /\ (initiateClaimError(farmer, policyCounter))'
                                = "WS: not policyholder"
      ]_vars
====
